---- MODULE Spec2Model ----
(***************************************************************************)
(* A model of the worms simulation: the quantized geometry, the ring       *)
(* buffer body, the two movers and the scene's per-tick state machine.     *)
(*                                                                         *)
(* Numbers.  The program computes with f32 coordinates.  The model keeps   *)
(* every coordinate as an integer count of 1/Scale world units, and the    *)
(* unit vector of a direction as a pair of integers over TrigScale.  An    *)
(* f32 that came out of sin, cos and roundings is not the number the model *)
(* holds for it, only close to it.  A comparison of such numbers has one   *)
(* outcome when they are further apart than the roundings reach, and       *)
(* either outcome when they are not: the program then decides by the last  *)
(* bits sinf, cosf, atan2f and hypotf of its build deliver.                *)
(***************************************************************************)
EXTENDS Integers, Sequences, FiniteSets, TLC

VARIABLES
    width,               \* Scene.width, in world units
    height,              \* Scene.height, in world units
    params,              \* Scene.params: worm_size, body_size, starvation, expiration
    behaviors,           \* SceneContent.behaviors, a function on the slots 0 .. len-1
    bodies,              \* SceneContent.bodies
    rewards,             \* SceneContent.rewards
    reward_destination,  \* SceneContent.reward_destination
    worm_id,             \* update_worms: the loop variable (0-based slot of the next turn)
    n_slots,             \* update_worms: the end of the range 0..behaviors.len(), fixed when the loop starts
    tick,                \* number of execute() calls that have ended
    panicked,            \* the program has panicked: nothing runs after that
    died,                \* history: for a Dead slot, the tick in which its worm died, else -1
    gui,                 \* SimInterface and its threads, where the scene runs under one
    last                 \* history: what the last step did (read by the properties only)

vars == <<width, height, params, behaviors, bodies, rewards, reward_destination,
          worm_id, n_slots, tick, panicked, died, gui, last>>

\* a scene that runs without a SimInterface
NoGui == [pc |-> "none"]

-----------------------------------------------------------------------------
(* Program constants *)

MAX_SIZE == 32

N_DIRECTIONS == 32

\* WormStats::default: vision_distance = 300.
VisionDistance == 300

\* WormStats::default: vision_range = 5*PI/4, whose half is 10 arcs of 2*PI/32.
VisionHalfArcs == 10

(* Number representation *)

\* coordinate units per world unit
Scale == 1000000

\* a wide number <<hi, lo>> stands for hi * Limb * Limb + lo, 0 <= lo < Limb * Limb
Limb == 10000

\* denominator of the unit vector table
TrigScale == Limb * Limb

\* how far, in coordinate units, an f32 value that went through roundings may
\* lie from the number the model holds for it
Tolerance == 250

-----------------------------------------------------------------------------
(* Bounds of the model *)

\* execute() calls explored
MaxTicks == 3

\* the world is Width x Height world units
Width == 2

Height == 0

\* the size Scene::resize gives a scene on its own, as <<width, height>>: a
\* world that has shrunk, so that heads and rewards may lie outside it
Sizes == {<<Width - 1, Height>>}

\* slots of a scene at the turn of a full worm
SplitSlots == 3

\* calls of roll and grow made on a body on its own
MaxCalls == 2

\* calls of next made on a Rotator
MaxNexts == 34

\* scene parameters and populations the initial scenes are drawn from
WormCounts == {0, 1, 2}
RewardCounts == {0, 1, 2}
BodySizes == {Scale \div 2}
Starvations == {1}
Expirations == {1}

\* single-segment worms under timers of 1, and worms spawned one segment
\* short of capacity and at capacity under timers of 0
SceneParams ==
    [worm_size : {1}, body_size : BodySizes,
     starvation : Starvations, expiration : Expirations]
    \cup [worm_size : {MAX_SIZE - 1, MAX_SIZE}, body_size : BodySizes,
          starvation : {0}, expiration : {0}]

\* the numbers of worms and of rewards of the initial scenes: every pair of
\* counts, and one worm with one reward for worms spawned one segment short
\* of capacity
Populations(worm_size) ==
    IF worm_size + 1 = MAX_SIZE THEN {<<1, 1>>} ELSE WormCounts \X RewardCounts

\* where Scene::new's draws may fall: heads by slot, directions, rewards and
\* their destinations (points in world units).  The worm spawned one segment
\* short of capacity starts where it sees the reward.
InitHeads == <<<<2, 0>>, <<0, 0>>>>
HitHeads == <<<<0, 0>>>>
Heads(worm_size) == IF worm_size + 1 = MAX_SIZE THEN HitHeads ELSE InitHeads
InitDirections == {8}
InitRewards == {<<1, 0>>}
InitRewardDestinations == {<<0, 0>>}

-----------------------------------------------------------------------------
(* Geometry: geometry.rs *)

Abs(a) == IF a < 0 THEN -a ELSE a

\* the outcomes of a comparison
May(outcomes) == TRUE \in outcomes

Must(outcomes) == outcomes = {TRUE}

\* a && b, a || b over several and !a, outcome by outcome; b is not looked
\* at when a is false
AndB(A, B) == IF A = {FALSE} THEN {FALSE} ELSE {a /\ b : a \in A, b \in B}

NotB(A) == {~ a : a \in A}

AnyB(S) ==
    {b \in BOOLEAN : IF b THEN \E s \in S : TRUE \in s ELSE \A s \in S : FALSE \in s}

\* cos of 0, 1, .. 8 arcs, times TrigScale
CosTable ==
    <<100000000, 98078528, 92387953, 83146961, 70710678, 55557023, 38268343, 19509032, 0>>

\* cos of 0.5, 1.5, .. 7.5 arcs, times TrigScale
HalfCosTable ==
    <<99518473, 95694034, 88192126, 77301045, 63439328, 47139674, 29028468, 9801714>>

Cos(k) ==
    LET m == k % N_DIRECTIONS
    IN  IF m <= 8 THEN CosTable[m + 1]
        ELSE IF m <= 16 THEN -CosTable[16 - m + 1]
        ELSE IF m <= 24 THEN -CosTable[m - 16 + 1]
        ELSE CosTable[32 - m + 1]

Sin(k) == Cos(k - 8)

\* cos and sin of (j + 1/2) arcs
HalfCos(j) ==
    LET m == j % N_DIRECTIONS
    IN  IF m <= 7 THEN HalfCosTable[m + 1]
        ELSE IF m <= 15 THEN -HalfCosTable[15 - m + 1]
        ELSE IF m <= 23 THEN -HalfCosTable[m - 16 + 1]
        ELSE HalfCosTable[31 - m + 1]

HalfSin(j) == HalfCos(j - 8)

\* wide numbers: the product of two numbers from 0 to about 4 * 10^8
WMul(x, y) ==
    LET x1 == x \div Limb
        x0 == x % Limb
        y1 == y \div Limb
        y0 == y % Limb
        mid == x1 * y0 + x0 * y1
        low == (mid % Limb) * Limb + x0 * y0
    IN  <<x1 * y1 + mid \div Limb + low \div TrigScale, low % TrigScale>>

WNeg(a) == IF a[2] = 0 THEN <<-a[1], 0>> ELSE <<-a[1] - 1, TrigScale - a[2]>>

WAdd(a, b) ==
    LET l == a[2] + b[2]
    IN  <<a[1] + b[1] + l \div TrigScale, l % TrigScale>>

WSub(a, b) == WAdd(a, WNeg(b))

WLess(a, b) == a[1] < b[1] \/ (a[1] = b[1] /\ a[2] < b[2])

\* the product of two numbers of either sign
SMul(x, y) ==
    IF (x < 0) = (y < 0) THEN WMul(Abs(x), Abs(y)) ELSE WNeg(WMul(Abs(x), Abs(y)))

\* a wide number over TrigScale, rounded to the nearest integer
WRound(a) == IF 2 * a[2] >= TrigScale THEN a[1] + 1 ELSE a[1]

\* an f32 that holds exactly the number of its coordinate count: a multiple
\* of 1/64 is a short binary fraction, sums and differences of two are too
Dyadic(a) == a % (Scale \div 64) = 0

\* the rounding of an f32 of size r, in coordinate units, taken generously
Ulps(r) == Abs(r) \div 4000000

\* A point is <<x, y, kx, ky>>.  kx tells where the f32 coordinate is next
\* to the number x / Scale: 0 it is that number, as Point::rand and
\* Point::default make it; -1 it is that number or just below, -2 just
\* below; 1 and 2 the same above; 3 it went through sin, cos and roundings
\* and lies within Tolerance on either side.  Coordinates of kinds -2 .. 2
\* are short binary fractions, those of kinds -2 and 2 are 0.
Point(x, y) == <<x, y, 0, 0>>

NegKind(k) == IF k = 3 THEN 3 ELSE -k

\* the kind of the f32 sum a + b, its count being sum: roundings keep the
\* order of two numbers
AddKind(ka, kb, sum) ==
    IF ka = 3 \/ kb = 3 \/ ka * kb < 0 THEN 3
    ELSE IF ka = 0 /\ kb = 0 THEN 0
    ELSE LET sign == IF ka + kb < 0 THEN -1 ELSE 1
         IN  IF sum = 0 /\ (Abs(ka) = 2 \/ Abs(kb) = 2) THEN 2 * sign ELSE sign

\* impl Add / Sub for Point
PointAdd(p, q) ==
    <<p[1] + q[1], p[2] + q[2],
      AddKind(p[3], q[3], p[1] + q[1]), AddKind(p[4], q[4], p[2] + q[2])>>

PointSub(p, q) ==
    <<p[1] - q[1], p[2] - q[2],
      AddKind(p[3], NegKind(q[3]), p[1] - q[1]),
      AddKind(p[4], NegKind(q[4]), p[2] - q[2])>>

\* The f32 angle of a direction is the f32 arc times its value.  A multiple
\* of 8 arcs is a multiple of the f32 of PI / 2, which is above PI / 2, so
\* the cos or sin that would be 0 is a small number of known sign and the
\* other is 1 or -1; a direction of 0 gives (1, 0).  TinyCos and TinySin
\* are the kinds of these small numbers.
TinyCos(direction) ==
    IF Abs(direction) = 8 THEN -2 ELSE IF Abs(direction) = 24 THEN 2 ELSE 3

TinySin(direction) ==
    IF direction \in {16, -32} THEN -2
    ELSE IF direction \in {-16, 32} THEN 2
    ELSE IF direction = 0 THEN 0
    ELSE 3

\* Direction::point scaled: Point::unit().rotate(to_radians()).scale(distance)
DirectionVector(direction, distance) ==
    LET whole == IF Dyadic(distance) THEN 0 ELSE 3
    IN  <<WRound(SMul(distance, Cos(direction))),
          WRound(SMul(distance, Sin(direction))),
          IF direction % 16 = 0 THEN whole ELSE TinyCos(direction),
          IF direction % 16 = 8 THEN whole ELSE TinySin(direction)>>

\* Point::copy
Copy(p, direction, distance) == PointAdd(p, DirectionVector(direction, distance))

\* the least and the greatest the f32 of a coordinate can be, the bound
\* itself left out for kinds 2 and -2
Lo(a, k) == IF k \in {0, 1, 2} THEN a ELSE a - Tolerance

Hi(a, k) == IF k \in {0, -1, -2} THEN a ELSE a + Tolerance

\* a <= b and a >= b for a coordinate a of kind k and a short binary
\* fraction b
Leq(a, b, k) ==
    IF Hi(a, k) <= b THEN {TRUE}
    ELSE IF Lo(a, k) > b \/ (k = 2 /\ a = b) THEN {FALSE}
    ELSE BOOLEAN

Geq(a, b, k) == Leq(-a, -b, NegKind(k))

Exact(p) == p[3] = 0 /\ p[4] = 0

\* Point::distance_to, squared, as a wide number
DistSq(p, q) ==
    LET dx == Abs(p[1] - q[1])
        dy == Abs(p[2] - q[2])
    IN  WAdd(WMul(dx, dx), WMul(dy, dy))

Orders == {"less", "equal", "more"}

\* a difference of two coordinates whose f32 is at least as far from 0 as
\* its count
AtLeast(d, k) == (d >= 0 /\ k \in {0, 1, 2}) \/ (d <= 0 /\ k \in {0, -1, -2})

\* distance_to(p, q) against r.  hypot gives r itself when it is the true
\* distance of exact points, is within its rounding of the true one, and
\* is never less than the f32 difference of the x or of the y.
DistCmp(p, q, r) ==
    LET d == PointSub(p, q)
        exact == Exact(p) /\ Exact(q) /\ Dyadic(r)
        band == (IF exact THEN 0 ELSE Tolerance) + Ulps(r)
        lo == IF r - band > 0 THEN r - band ELSE 0
        hi == r + band
        reach == \/ ~ Dyadic(r)
                 \/ /\ ~ (AtLeast(d[1], d[3]) /\ Abs(d[1]) >= r)
                    /\ ~ (AtLeast(d[2], d[4]) /\ Abs(d[2]) >= r)
    IN  IF hi < 0 \/ Abs(d[1]) > hi \/ Abs(d[2]) > hi THEN {"more"}
        ELSE LET s == DistSq(p, q)
             IN  IF exact /\ r >= 0 /\ s = WMul(r, r) THEN {"equal"}
                 ELSE IF WLess(s, WMul(lo, lo)) THEN {"less"}
                 ELSE IF WLess(WMul(hi, hi), s) THEN {"more"}
                 ELSE IF reach THEN Orders
                 ELSE {"equal", "more"}

\* distance_to(p, q) < r
DistLess(p, q, r) == {c = "less" : c \in DistCmp(p, q, r)}

\* distance_to(p, q) > r
DistMore(p, q, r) == {c = "more" : c \in DistCmp(p, q, r)}

\* distance_to(origin, a) against distance_to(origin, b) for two points
\* within the vision distance; two exact points that are one give one
\* distance
DistOrder(origin, a, b) ==
    LET sa == DistSq(origin, a)
        sb == DistSq(origin, b)
        exact == Exact(origin) /\ Exact(a) /\ Exact(b)
        na == Abs(origin[1] - a[1]) + Abs(origin[2] - a[2])
        nb == Abs(origin[1] - b[1]) + Abs(origin[2] - b[2])
        band == (IF exact THEN 0 ELSE Tolerance) + Ulps(na) + Ulps(nb)
        gap == IF WLess(sa, sb) THEN WSub(sb, sa) ELSE WSub(sa, sb)
    IN  IF (exact /\ sa = sb) \/ (Exact(a) /\ a = b) THEN {"equal"}
        ELSE IF WLess(WMul(2 * band, na + nb), gap)
             THEN (IF WLess(sa, sb) THEN {"less"} ELSE {"more"})
             ELSE Orders

\* the sign of the z component of a x v, a being a table vector and v the
\* difference of two points: a[1] * v[2] - a[2] * v[1].  Within the band the
\* roundings of atan2 and of the angles decide.
Side(a, v) ==
    LET c == WSub(SMul(a[1], v[2]), SMul(a[2], v[1]))
        band == (IF v[3] = 0 THEN 0 ELSE Tolerance) + (IF v[4] = 0 THEN 0 ELSE Tolerance)
                  + 1 + (Abs(v[1]) + Abs(v[2])) \div 1000000
    IN  IF WLess(<<band, 0>>, c) THEN {1}
        ELSE IF WLess(c, <<-band, 0>>) THEN {-1}
        ELSE {-1, 0, 1}

\* the eighths of the turn a vector may lie in, eighth k holding the
\* bearings from 4 k to 4 k + 4 arcs
Eighths(v) ==
    LET slack == 2 * Tolerance + 2
        x == v[1]
        y == v[2]
    IN  {k \in 0..7 :
            /\ (IF k \in {0, 1, 6, 7} THEN x ELSE -x) >= -slack
            /\ (IF k \in {0, 1, 2, 3} THEN y ELSE -y) >= -slack
            /\ (IF k \in {0, 3, 4, 7} THEN Abs(x) - Abs(y) ELSE Abs(y) - Abs(x)) >= -slack}

\* The sectors 0..31 a vector may lie in: sector m holds the bearings from
\* (m - 1/2) arcs, included, to (m + 1/2) arcs, excluded.
Sector(v) ==
    LET near == UNION {{(4 * k + j) % N_DIRECTIONS : j \in 0..4} : k \in Eighths(v)}
        side == [m \in near \cup {(n - 1) % N_DIRECTIONS : n \in near} |->
                    Side(<<HalfCos(m), HalfSin(m)>>, v)]
    IN  {m \in near :
            /\ side[(m - 1) % N_DIRECTIONS] \cap {0, 1} # {}
            /\ -1 \in side[m]}

\* the signs a coordinate may have
Signs(a, k) ==
    {sign \in {-1, 0, 1} :
        IF sign = 0 THEN TRUE \in Leq(a, 0, k) /\ TRUE \in Geq(a, 0, k) /\ Abs(k) # 2
        ELSE IF sign = 1 THEN FALSE \in Leq(a, 0, k)
        ELSE FALSE \in Geq(a, 0, k)}

\* atan2 of a vector along an axis is 0, PI / 2, PI or - PI / 2 whatever
\* its length, and atan2(0, 0) is 0: the vectors of the bearings atan2 may
\* give, with a length that counts when the vector is along an axis
Bearings(v) ==
    IF v[1] = 0 /\ v[3] = 0
    THEN {IF sign = 0 THEN <<Scale, 0, 0, 0>> ELSE <<0, sign * Scale, 0, 0>>
            : sign \in Signs(v[2], v[4])}
    ELSE IF v[2] = 0 /\ v[4] = 0
    THEN {IF sign = 0 THEN <<Scale, 0, 0, 0>> ELSE <<sign * Scale, 0, 0, 0>>
            : sign \in Signs(v[1], v[3])}
    ELSE {v}

\* Point::direction_to = Direction::from_radians(atan2(dy, dx)):
\* floor((angle + arc/2) / arc) with the angle in (-PI, PI], so -16 .. 16.
DirectionTo(p, q) ==
    UNION { UNION { IF m < 16 THEN {m}
                    ELSE IF m = 16 THEN {IF b THEN 16 ELSE -16 : b \in Geq(v[2], 0, v[4])}
                    ELSE {m - N_DIRECTIONS}
                    : m \in Sector(v) }
            : v \in Bearings(PointSub(q, p)) }

\* Direction::connect with range = vision_range: the bearing from origin to
\* destination is at most VisionHalfArcs arcs away from the direction.
Connect(direction, origin, destination) ==
    UNION { LET hi == Side(<<Cos(direction + VisionHalfArcs),
                             Sin(direction + VisionHalfArcs)>>, v)
                lo == Side(<<Cos(direction - VisionHalfArcs),
                             Sin(direction - VisionHalfArcs)>>, v)
            IN  {b \in BOOLEAN :
                    IF b THEN hi \cap {-1, 0} # {} \/ lo \cap {0, 1} # {}
                    ELSE 1 \in hi /\ -1 \in lo}
            : v \in Bearings(PointSub(destination, origin)) }

\* rotate(iteration, rotation) of geometry.rs; Rust's % keeps the sign of
\* the dividend and the product with it is 0 for iteration 0.
\* a half cut towards 0, as an integer division does; C23_RotatorOrder tells
\* it from FloorHalf
TruncHalf(a) == IF a < 0 THEN -((-a) \div 2) ELSE a \div 2

FloorHalf(a) == a \div 2

RustRem2(a) == IF a < 0 THEN -((-a) % 2) ELSE a % 2

Rotate(iteration, rotation) ==
    LET h == 1 + FloorHalf(iteration - 1)
        r == RustRem2(iteration - 1)
    IN  IF rotation = "Clockwise" THEN -h + 2 * h * r ELSE h - 2 * h * r

Rotations == {"Clockwise", "CounterClockwise"}

\* Point::rand: integer coordinates in 0..=xlimit, 0..=ylimit
RandPoints(xlimit, ylimit) ==
    {Point(x * Scale, y * Scale) : x \in 0..xlimit, y \in 0..ylimit}

-----------------------------------------------------------------------------
(* Bodies: composites.rs *)

Indices == 0..(MAX_SIZE - 1)

Alive(c) == [tag |-> "Alive", counter |-> c]

Dead(c) == [tag |-> "Dead", counter |-> c]

Chasing == [tag |-> "Chasing", counter |-> 0]

Removed == [tag |-> "Removed", counter |-> 0]

\* impl Default for WormBody
DefaultBody ==
    [target |-> Point(0, 0), parts |-> [i \in Indices |-> Point(0, 0)], start |-> 0, size |-> 0]

\* a loop that leaves every entry where the head is; C19_NewBody tells it
\* from FillParts
FillNone(parts, i, direction, distance) == parts

\* the loop of WormBody::new from index i down to 1: parts[i - 1] is
\* parts[i] copied at distance along direction
RECURSIVE FillParts(_, _, _, _)
FillParts(parts, i, direction, distance) ==
    IF i < 1 THEN parts
    ELSE FillParts([parts EXCEPT ![i - 1] = Copy(parts[i], direction, distance)],
                   i - 1, direction, distance)

\* WormBody::new: the array is filled with head, then parts[i - 1] is
\* parts[i] moved by 2 * part_size along direction, for i = start down to 1.
NewBody(size, head, direction, part_size) ==
    LET start == size - 1
    IN  [target |-> head,
         parts |-> FillParts([i \in Indices |-> head], start, direction, part_size * 2),
         start |-> start,
         size |-> size]

\* WormBody::head (Head is the Sequences operator)
BodyHead(b) == b.parts[b.start]

\* a tail read one entry behind the last live one; C22_IterBothWays tells it
\* from BodyTail
TailBehind(b) == b.parts[(MAX_SIZE + b.start - b.size) % MAX_SIZE]

\* WormBody::tail
BodyTail(b) == b.parts[(MAX_SIZE + b.start - b.size + 1) % MAX_SIZE]

\* a test that finds no body full; C16_NoGrowWhenFull tells it from Full
NeverFull(b) == FALSE

\* WormBody::full
Full(b) == b.size = MAX_SIZE

\* WormBody::set_size
SetSize(b, size) == [b EXCEPT !.size = size]

\* WormBody::available_space
AvailableSpace(b) == MAX_SIZE - b.size

\* a shrink that leaves the head where it is; C21_GrowShrinkBelowFull tells
\* it from Shrink
ShrinkTail(b, size) == [b EXCEPT !.size = b.size - size]

\* a shrink that drops nothing; C13_MergeSizes tells it from Shrink
ShrinkNone(b, size) == b

\* WormBody::shrink
Shrink(b, size) ==
    [b EXCEPT !.start = (MAX_SIZE + b.start - size) % MAX_SIZE, !.size = b.size - size]

\* a shift that moves nothing; C29_MergeSequences tells it from Shift
ShiftNone(b, point) == b

\* WormBody::shift
Shift(b, point) ==
    LET live == {(MAX_SIZE + b.start - i) % MAX_SIZE : i \in 0..(b.size - 1)}
    IN  [b EXCEPT !.parts = [i \in Indices |->
                               IF i \in live THEN PointAdd(b.parts[i], point) ELSE b.parts[i]]]

\* a roll that leaves the body as it is; C4_RolledBeforeChasing tells it from Roll
RollInPlace(b, part, target) == b

\* a roll that writes the part over the head; C30_RollAndGrow tells it from Roll
RollOver(b, part, target) == [b EXCEPT !.parts[b.start] = part, !.target = target]

\* WormBody::roll
Roll(b, part, target) ==
    LET start == (b.start + 1) % MAX_SIZE
    IN  [b EXCEPT !.start = start, !.parts[start] = part, !.target = target]

Min(a, b) == IF a < b THEN a ELSE b

\* a grow that does not lengthen the body; C7_HitGrows tells it from Grow
RollOnly(b, part) == Roll(b, part, part)

\* a grow without the cap; C20_RollGrowSizes tells it from Grow
GrowUncapped(b, part) ==
    LET r == Roll(b, part, part)
    IN  [r EXCEPT !.size = r.size + 1]

\* WormBody::grow
Grow(b, part) ==
    LET r == Roll(b, part, part)
    IN  [r EXCEPT !.size = Min(MAX_SIZE, r.size + 1)]

\* WormBodyIterator::next, called to exhaustion: head to tail
IterSeq(b) ==
    [counter \in 1..b.size |-> b.parts[(1 + MAX_SIZE + b.start - counter) % MAX_SIZE]]

\* an iteration from the head taken for the reverse one; C11_SplitTakesTail
\* tells it from RevSeq
HeadFirst(b) == IterSeq(b)

\* WormBodyIterator::next_back, called to exhaustion: tail to head
RevSeq(b) ==
    [counter \in 1..b.size |-> b.parts[(MAX_SIZE + b.start + counter - b.size) % MAX_SIZE]]

\* a fold that stops after one segment; C10_SplitSizes tells it from GrowAll
GrowFirst(dst, items, n) ==
    IF n = 0 \/ items = <<>> THEN dst ELSE Grow(dst, Head(items))

\* a fold that grows the first n items last to first; C31_FillFromTail tells
\* it from GrowAll
RECURSIVE GrowBackwards(_, _, _)
GrowBackwards(dst, items, n) ==
    IF n = 0 \/ items = <<>> THEN dst
    ELSE Grow(GrowBackwards(dst, Tail(items), n - 1), Head(items))

\* iter().rev().take(n) .. fold(grow): the first n items of the reverse
\* iteration of src grown one after the other into dst
RECURSIVE GrowAll(_, _, _)
GrowAll(dst, items, n) ==
    IF n = 0 \/ items = <<>> THEN dst
    ELSE GrowAll(Grow(dst, Head(items)), Tail(items), n - 1)

\* the sizes dst has at the calls of grow the fold of GrowAll makes
GrowSizes(dst, items, n) ==
    {Min(MAX_SIZE, dst.size + i) : i \in 0..(Min(n, Len(items)) - 1)}

-----------------------------------------------------------------------------
(* Movement: movement.rs.  Vec<T> is a function on 0..len-1, Option<T> a     *)
(* sequence of at most one element.  A test on f32 numbers, and what is    *)
(* built on it, is the set of the outcomes it may have.                    *)

Len0(f) == Cardinality(DOMAIN f)

\* Vec::push
Push(f, x) ==
    LET n == Len0(f)
    IN  [i \in 0..n |-> IF i < n THEN f[i] ELSE x]

\* Scene::get_movement_details
GetMovementDetails(bd, id, w, h) ==
    [origin |-> BodyHead(bd[id]), chosen_destination |-> bd[id].target,
     width |-> w, height |-> h]

\* MovementDetails::choose_destination; rand_point is the Point::rand drawn
ChooseDestination(details, rand_point) ==
    {IF b THEN details.chosen_destination ELSE rand_point
        : b \in DistMore(details.origin, details.chosen_destination, VisionDistance * Scale)}

\* MovementDetails::is_inside_area
IsInsideArea(details, new_head) ==
    AndB(Leq(new_head[1], details.width * Scale, new_head[3]),
         Leq(new_head[2], details.height * Scale, new_head[4]))

\* in_range after direction_to: direction.connect(..) && distance_to(..) < vision_distance
InRangeAlong(direction, origin, target) ==
    AndB(Connect(direction, origin, target),
         DistLess(origin, target, VisionDistance * Scale))

\* in_range
InRange(origin, destination, target) ==
    UNION {InRangeAlong(direction, origin, target)
             : direction \in DirectionTo(origin, destination)}

\* in_range for every candidate, along one direction_to(chosen_destination)
InRanges(direction, origin, targets) ==
    [j \in DOMAIN targets |-> InRangeAlong(direction, origin, targets[j])]

\* the sets of candidates that may pass a filter with these outcomes
Passing(in) ==
    LET must == {j \in DOMAIN in : in[j] = {TRUE}}
    IN  {must \cup more : more \in SUBSET {j \in DOMAIN in : in[j] = BOOLEAN}}

\* filter_map(to_valid_target) over the candidates targets: the sets of ids
\* that may pass.  direction_to(chosen_destination) is the same in every call.
ValidTargets(details, targets) ==
    UNION { Passing(InRanges(direction, details.origin, targets))
            : direction \in DirectionTo(details.origin, details.chosen_destination) }

\* the closest of the ValidTargets, the last of them in index order;
\* C27_SelectTarget tells it from Closest
ClosestLast(origin, ids, targets) ==
    {c \in ids :
        \A k \in ids \ {c} :
            LET order == DistOrder(origin, targets[c], targets[k])
            IN  "less" \in order \/ ("equal" \in order /\ c > k)}

\* min_by over the ValidTargets: the closest, the first of them in index order
Closest(origin, ids, targets) ==
    {c \in ids :
        \A k \in ids \ {c} :
            LET order == DistOrder(origin, targets[c], targets[k])
            IN  "less" \in order \/ ("equal" \in order /\ c < k)}

\* a filter that takes the tail of any slot, whatever its behaviour;
\* C28_TargetAliveOther tells it from ChasingTargets
AnyTargets(bd, bh) == [i \in DOMAIN bd |-> BodyTail(bd[i])]

\* ChasingWormMover::to_valid_target, matches!(behaviors[id], Alive(_)): the
\* candidates are the tails of the Alive bodies
ChasingTargets(bd, bh) ==
    [i \in {j \in DOMAIN bd : bh[j].tag = "Alive"} |-> BodyTail(bd[i])]

\* the candidates of a mover: AliveWormMover looks at the rewards,
\* ChasingWormMover at the tails
Targets(kind, bd, bh, rw) == IF kind = "Alive" THEN rw ELSE ChasingTargets(bd, bh)

\* the match of select_target, valid being the ids the filter passed
SelectAmong(details, targets, valid, rand_point) ==
    IF valid # {}
    THEN {[target_id |-> <<c>>, destination |-> targets[c]]
            : c \in Closest(details.origin, valid, targets)}
    ELSE {[target_id |-> <<>>, destination |-> d]
            : d \in ChooseDestination(details, rand_point)}

\* Mover::select_target of AliveWormMover and of ChasingWormMover, which
\* differ in their candidates; valid_sets is ValidTargets of the candidates
SelectTarget(details, targets, valid_sets, rand_point) ==
    UNION {SelectAmong(details, targets, valid, rand_point) : valid \in valid_sets}

\* the k-th item of body.iter(), k = 1 .. size
IterItem(b, k) == b.parts[(1 + MAX_SIZE + b.start - k) % MAX_SIZE]

\* AliveWormMover::collides: 0.01 is Scale / 100 units
AliveCollides(bd, part, distance) ==
    AnyB(UNION { {DistLess(IterItem(bd[i], k), part, distance - Scale \div 100)
                    : k \in 1..bd[i].size}
                 : i \in DOMAIN bd })

\* ChasingWormMover::collides: 0.1 is Scale / 10 units
ChasingCollides(bd, bh, rw, part, distance) ==
    LET n(i) == Min(IF bh[i].tag = "Alive" THEN bd[i].size - 1 ELSE bd[i].size, bd[i].size)
    IN  AnyB(UNION { {DistLess(IterItem(bd[i], k), part, distance - Scale \div 10)
                        : k \in 1..n(i)}
                     : i \in DOMAIN bd }
             \cup {DistLess(rw[j], part, distance - Scale \div 10) : j \in DOMAIN rw})

\* Mover::collides
Collides(kind, bd, bh, rw, part, distance) ==
    IF kind = "Alive" THEN AliveCollides(bd, part, distance)
    ELSE ChasingCollides(bd, bh, rw, part, distance)

\* the closure of find_map in execute_movement: is_valid for one direction
IsValidHead(kind, details, bd, bh, rw, new_head, distance) ==
    AndB(IsInsideArea(details, new_head),
         NotB(Collides(kind, bd, bh, rw, new_head, distance)))

\* Rotator::next, the value of call number times = 1 .. 32
RotatorNext(direction, times, rotation) == direction + Rotate(times - 1, rotation)

\* Rotator .. find_map: the first valid head in the Rotator's order, if any
FindMap(kind, details, bd, bh, rw, direction, rotation, distance) ==
    LET NewHead(times) == Copy(details.origin, RotatorNext(direction, times, rotation), distance)
        first[times \in 1..(N_DIRECTIONS + 1)] ==
            IF times > N_DIRECTIONS THEN {<<>>}
            ELSE LET is_valid == IsValidHead(kind, details, bd, bh, rw, NewHead(times), distance)
                 IN  (IF TRUE \in is_valid THEN {<<NewHead(times)>>} ELSE {})
                       \cup (IF FALSE \in is_valid THEN first[times + 1] ELSE {})
    IN  first[1]

\* The random draws of one execute_movement.  Point::rand is drawn in every
\* call of choose_destination and used only when no target is in range and
\* the remembered destination is within the vision distance.  A draw that is
\* not used is one value.
PointDraws(details, valid_sets) ==
    IF {} \in valid_sets /\ FALSE \in DistMore(details.origin, details.chosen_destination,
                                                   VisionDistance * Scale)
    THEN RandPoints(details.width, details.height)
    ELSE {Point(0, 0)}

\* The handedness Rotator::new draws.  The Rotator's first direction is the
\* seed whatever the handedness, so the draw is used only when the head
\* along the seed may be turned down.
RotationDraws(kind, details, bd, bh, rw, seed, distance) ==
    IF Must(IsValidHead(kind, details, bd, bh, rw,
                        Copy(details.origin, seed, distance), distance))
    THEN {"Clockwise"}
    ELSE Rotations

MovementNone == [kind |-> "None", id |-> 0, head |-> Point(0, 0), destination |-> Point(0, 0)]

TargetHit(id, head) ==
    [kind |-> "TargetHit", id |-> id, head |-> head, destination |-> Point(0, 0)]

TargetMiss(head, destination) ==
    [kind |-> "TargetMiss", id |-> 0, head |-> head, destination |-> destination]

\* a chain that takes any accepted head for a hit when there is a target;
\* C26_HitExactly tells it from AndThen
AndThenAnywhere(valid, target_id, destination, distance) ==
    IF valid = <<>> THEN {MovementNone}
    ELSE IF target_id # <<>> THEN {TargetHit(target_id[1], valid[1])}
    ELSE {IF reached THEN MovementNone ELSE TargetMiss(valid[1], destination)
            : reached \in DistLess(destination, valid[1], distance)}

\* the and_then / unwrap_or chain of execute_movement: valid is find_map's
\* Option.  then_some(target_id.map(..)) is Some(None) when the destination
\* is reached and there is no target id, and unwrap_or hands that inner None on.
AndThen(valid, target_id, destination, distance) ==
    IF valid = <<>> THEN {MovementNone}
    ELSE {IF reached
          THEN (IF target_id # <<>> THEN TargetHit(target_id[1], valid[1]) ELSE MovementNone)
          ELSE TargetMiss(valid[1], destination)
            : reached \in DistLess(destination, valid[1], distance)}

\* Mover::execute_movement, with what it went through
ExecuteMovement(kind, details, bd, bh, rw, targets, valid_sets, distance, rand_point) ==
    UNION { UNION { UNION { UNION { {[result |-> result,
                                      target_id |-> sel.target_id,
                                      destination |-> sel.destination,
                                      seed |-> seed,
                                      valid |-> valid]
                                       : result \in AndThen(valid, sel.target_id,
                                                            sel.destination, distance)}
                                    : valid \in FindMap(kind, details, bd, bh, rw, seed,
                                                        rotation, distance) }
                            : rotation \in RotationDraws(kind, details, bd, bh, rw, seed,
                                                         distance) }
                    : seed \in DirectionTo(details.origin, sel.destination) }
            : sel \in SelectTarget(details, targets, valid_sets, rand_point) }

\* execute_movement for every way its Point::rand can fall
MovementsAmong(kind, details, bd, bh, rw, targets, valid_sets, distance) ==
    UNION { ExecuteMovement(kind, details, bd, bh, rw, targets, valid_sets, distance,
                            rand_point)
            : rand_point \in PointDraws(details, valid_sets) }

-----------------------------------------------------------------------------
(* Scene: scene.rs *)

StepDistance(p) == p.body_size * 2

\* the sizes of the bodies whose head() get_movement_details reads
DetailsReads(bd, id) == {bd[id].size}

\* the sizes of the bodies whose tail() the chasing target scan reads:
\* to_valid_target reads it, twice, inside the closure run for an Alive slot
ScanReads(bd, bh) == {bd[i].size : i \in {j \in DOMAIN bd : bh[j].tag = "Alive"}}

\* the sizes of the bodies merge_worms reads the ends of: the target's tail()
\* and the head() of the chaser as shrink(1) has left it
MergeReads(bd, id, target_id) == {bd[target_id].size, Shrink(bd[id], 1).size}

\* the sizes the chaser's body has at the calls of grow merge_worms makes
MergeGrows(bd, id, target_id) ==
    LET shrunk == Shrink(bd[id], 1)
    IN  GrowSizes(shrunk, RevSeq(bd[target_id]), AvailableSpace(shrunk))

\* the values of body.size() - 1 that ChasingWormMover::collides computes
\* when its scan visits every body: then_some evaluates its argument for
\* Alive slots and the others alike
ScanSubtractions(bd) == {bd[i].size - 1 : i \in DOMAIN bd}

\* the unsigned differences of merge_worms: size - 1 in shrink,
\* MAX_SIZE - size in available_space, the number of segments moved and
\* what is left of the target
MergeSubtractions(bd, id, target_id) ==
    LET shrunk == Shrink(bd[id], 1)
        grown == GrowAll(shrunk, RevSeq(bd[target_id]), AvailableSpace(shrunk))
        removed == grown.size - shrunk.size
    IN  {bd[id].size - 1, AvailableSpace(shrunk), removed, bd[target_id].size - removed}

\* the unsigned differences of split_worm: size_after_split in each pass of
\* the loop, from a donor of n segments down to what it keeps
SplitSubtractions(n, kept, worm_size) ==
    {n - k * worm_size : k \in 1..((n - kept) \div worm_size)}

\* a test that lets an emptied target keep its slot; C14_MergeBehaviors
\* tells it from Absorbed
NeverAbsorbed(target_worm_size) == FALSE

\* the last test of Scene::merge_worms: the target has no segment left
Absorbed(target_worm_size) == target_worm_size = 0

\* Scene::merge_worms
MergeWorms(bd, bh, id, target_id) ==
    LET shrunk == Shrink(bd[id], 1)
        diff == PointSub(BodyTail(bd[target_id]), BodyHead(shrunk))
        shifted == Shift(shrunk, diff)
        original_worm_size == shifted.size
        grown == GrowAll(shifted, RevSeq(bd[target_id]), AvailableSpace(shifted))
        removed == grown.size - original_worm_size
        target_worm_size == bd[target_id].size - removed
    IN  [bodies |-> [bd EXCEPT ![id] = grown,
                               ![target_id] = SetSize(bd[target_id], target_worm_size)],
         behaviors |-> IF Absorbed(target_worm_size)
                       THEN [bh EXCEPT ![target_id] = Removed]
                       ELSE bh]

\* a search that finds no Removed slot and always pushes one;
\* C12_ReuseBeforeAppend tells it from NextRemovedIndex
AlwaysAppend(bh) == {Len0(bh)}

\* Scene::next_removed_index: position_any gives the index of some Removed
\* slot, not of a particular one; with none, a default body is pushed as Removed.
NextRemovedIndex(bh) ==
    LET free == {i \in DOMAIN bh : bh[i].tag = "Removed"}
    IN  IF free # {} THEN free ELSE {Len0(bh)}

\* one pass of the loop of Scene::split_worm with free_index chosen
SplitStep(bd, bh, id, worm_size, free_index) ==
    LET size_after_split == bd[id].size - worm_size
        bd1 == IF free_index \in DOMAIN bd THEN bd ELSE Push(bd, DefaultBody)
        bh1 == IF free_index \in DOMAIN bh THEN bh ELSE Push(bh, Removed)
        filled == GrowAll(bd1[free_index], RevSeq(bd1[id]), worm_size)
    IN  [bodies |-> [bd1 EXCEPT ![free_index] = filled,
                                ![id] = SetSize(bd1[id], size_after_split)],
         behaviors |-> [bh1 EXCEPT ![free_index] = Alive(0)]]

\* a loop condition that leaves a body of exactly two spawn sizes whole;
\* C9_SplitWhenTwoFit tells it from CanSplit
CanSplitStrict(body, worm_size) == body.size > worm_size * 2

\* the loop condition of Scene::split_worm
CanSplit(body, worm_size) == body.size >= worm_size * 2

\* Scene::split_worm: the scenes it can end in (one for each way
\* next_removed_index can choose); the donor's behavior is the caller's to set
RECURSIVE SplitWorm(_, _, _, _)
SplitWorm(bd, bh, id, worm_size) ==
    IF CanSplit(bd[id], worm_size)
    THEN UNION { LET s == SplitStep(bd, bh, id, worm_size, free_index)
                 IN  SplitWorm(s.bodies, s.behaviors, id, worm_size)
                 : free_index \in NextRemovedIndex(bh) }
    ELSE {[bodies |-> bd, behaviors |-> bh]}

\* a starvation test that does not divide by the size; C6_StarvationTest
\* tells it from StillFed
StillFedWhole(counter, starvation, size) == counter < starvation

\* the starvation test of Scene::execute_alive, after the roll
StillFed(counter, starvation, size) == counter < starvation \div size

\* a hit that draws every reward anew; C24_RewardsFrame tells it from Respawn
RespawnAll(rw, id, rand_reward) == [j \in DOMAIN rw |-> rand_reward]

\* the TargetHit arm of Scene::execute_alive: rewards[target_index] is drawn anew
Respawn(rw, id, rand_reward) == [rw EXCEPT ![id] = rand_reward]

\* Scene::execute_alive, m being what execute_movement returned and
\* rand_reward the Reward::rand drawn on a hit
ExecuteAlive(bd, bh, rw, id, counter, p, m, rand_reward) ==
    LET r == m.result
    IN  IF r.kind = "TargetHit"
        THEN [behavior |-> Alive(0),
              bodies |-> [bd EXCEPT ![id] = Grow(bd[id], r.head)],
              behaviors |-> bh,
              rewards |-> Respawn(rw, r.id, rand_reward),
              attempt |-> m]
        ELSE IF r.kind = "TargetMiss"
        THEN LET rolled == Roll(bd[id], r.head, r.destination)
             IN  [behavior |-> IF StillFed(counter, p.starvation, rolled.size)
                               THEN Alive(counter + 1) ELSE Chasing,
                   bodies |-> [bd EXCEPT ![id] = rolled],
                   behaviors |-> bh,
                   rewards |-> rw,
                   attempt |-> m]
        ELSE [behavior |-> Dead(0), bodies |-> bd, behaviors |-> bh, rewards |-> rw,
              attempt |-> m]

\* Scene::execute_chasing, m being what execute_movement returned
ExecuteChasing(bd, bh, rw, id, m) ==
    LET r == m.result
    IN  IF r.kind = "TargetHit"
        THEN LET g == MergeWorms(bd, bh, id, r.id)
             IN  [behavior |-> Alive(0), bodies |-> g.bodies, behaviors |-> g.behaviors,
                  rewards |-> rw, attempt |-> m]
        ELSE IF r.kind = "TargetMiss"
        THEN [behavior |-> Chasing,
              bodies |-> [bd EXCEPT ![id] = Roll(bd[id], r.head, r.destination)],
              behaviors |-> bh, rewards |-> rw, attempt |-> m]
        ELSE [behavior |-> Dead(0), bodies |-> bd, behaviors |-> bh, rewards |-> rw,
              attempt |-> m]

\* the movements one call of execute_alive / execute_chasing can get from
\* execute_movement, one for each way the draws can fall
Movements(kind, bd, bh, rw, id, p, w, h) ==
    LET details == GetMovementDetails(bd, id, w, h)
        targets == Targets(kind, bd, bh, rw)
    IN  MovementsAmong(kind, details, bd, bh, rw, targets, ValidTargets(details, targets),
                       StepDistance(p))

\* Reward::rand of execute_alive: drawn on a hit only
RewardDraws(m, w, h) ==
    IF m.result.kind = "TargetHit" THEN RandPoints(w, h) ELSE {Point(0, 0)}

\* a Dead arm that revives the worm; C2_Edges tells it from DeadArm
DeadArmRevive(body, counter, expiration) ==
    IF counter < expiration
    THEN [behavior |-> Dead(counter + 1), body |-> body]
    ELSE [behavior |-> Alive(0), body |-> body]

\* a Dead arm that counts one turn more; C8_DeadCountdown tells it from DeadArm
DeadArmLate(body, counter, expiration) ==
    IF counter <= expiration
    THEN [behavior |-> Dead(counter + 1), body |-> body]
    ELSE [behavior |-> Removed, body |-> SetSize(body, 0)]

\* a Dead arm that removes the worm and leaves its body; C32_RemovedIffEmpty
\* tells it from DeadArm
DeadArmKeepsBody(body, counter, expiration) ==
    IF counter < expiration
    THEN [behavior |-> Dead(counter + 1), body |-> body]
    ELSE [behavior |-> Removed, body |-> body]

\* the Dead arm of Scene::update_worms
DeadArm(body, counter, expiration) ==
    IF counter < expiration
    THEN [behavior |-> Dead(counter + 1), body |-> body]
    ELSE [behavior |-> Removed, body |-> SetSize(body, 0)]

\* a Chasing arm that never calls again; C3_ChasingAttempts tells it from ChasesAgain
ChasesOnce(result) == FALSE

\* a Chasing arm that always calls again; C5_DeadBody tells it from ChasesAgain
ChasesTwice(result) == TRUE

\* the Chasing arm of Scene::update_worms: whether execute_chasing is called
\* again on its own result
ChasesAgain(result) == result = Chasing

\* the assignments to behaviors made between two scenes, in slot order, the
\* turn's own slot last
Assignments(old, new, id) ==
    LET changed(i) == i \notin DOMAIN old \/ old[i] # new[i]
        Was(i) == IF i \in DOMAIN old THEN old[i] ELSE Removed
        others == {i \in DOMAIN new : i # id /\ changed(i)}
    IN  {<<i, Was(i), new[i]>> : i \in others}

\* history: the scene a step started from, the assignments to behaviors it
\* made and the movements it attempted
Record(op, assigns, attempts) ==
    [op |-> op, id |-> worm_id, behaviors |-> behaviors, bodies |-> bodies,
     rewards |-> rewards, died |-> died, assigns |-> assigns, attempts |-> attempts]

\* history: a slot that becomes Dead is stamped with the current tick, one
\* that stays Dead keeps its stamp
Deaths(old, new, stamps, now) ==
    [i \in DOMAIN new |->
        IF new[i].tag # "Dead" THEN -1
        ELSE IF i \in DOMAIN old /\ old[i].tag = "Dead" THEN stamps[i]
        ELSE now]

\* a loop that passes over every other slot; C18_TurnOrder tells it from NextWorm
SkipWorm(id) == id + 2

\* for worm_id in 0..behaviors.len(): the slot after a slot
NextWorm(id) == id + 1

InTurn == ~ panicked /\ tick < MaxTicks /\ worm_id < n_slots

Static == UNCHANGED <<gui, width, height, params, reward_destination, n_slots, tick, panicked>>

\* update_worms, Alive arm, full body: split_worm
TurnSplit ==
    /\ InTurn
    /\ behaviors[worm_id].tag = "Alive"
    /\ Full(bodies[worm_id])
    /\ \E s \in SplitWorm(bodies, behaviors, worm_id, params.worm_size) :
          /\ bodies' = s.bodies
          /\ behaviors' = [s.behaviors EXCEPT ![worm_id] = Alive(0)]
          /\ last' = Record("split",
                            Assignments(behaviors, s.behaviors, worm_id)
                              \cup {<<worm_id, behaviors[worm_id], Alive(0)>>},
                            <<>>)
    /\ died' = Deaths(behaviors, behaviors', died, tick)
    /\ worm_id' = NextWorm(worm_id)
    /\ UNCHANGED rewards
    /\ Static

\* update_worms, Alive arm, body not full: execute_alive
TurnAlive ==
    /\ InTurn
    /\ behaviors[worm_id].tag = "Alive"
    /\ ~ Full(bodies[worm_id])
    /\ \E m \in Movements("Alive", bodies, behaviors, rewards, worm_id, params, width, height) :
          \E rand_reward \in RewardDraws(m, width, height) :
              LET e == ExecuteAlive(bodies, behaviors, rewards, worm_id,
                                    behaviors[worm_id].counter, params, m, rand_reward)
              IN  /\ bodies' = e.bodies
                  /\ behaviors' = [e.behaviors EXCEPT ![worm_id] = e.behavior]
                  /\ rewards' = e.rewards
                  /\ last' = Record("alive", {<<worm_id, behaviors[worm_id], e.behavior>>},
                                    <<e.attempt>>)
    /\ died' = Deaths(behaviors, behaviors', died, tick)
    /\ worm_id' = NextWorm(worm_id)
    /\ Static

\* update_worms, Dead arm
TurnDead ==
    /\ InTurn
    /\ behaviors[worm_id].tag = "Dead"
    /\ LET d == DeadArm(bodies[worm_id], behaviors[worm_id].counter, params.expiration)
       IN  /\ behaviors' = [behaviors EXCEPT ![worm_id] = d.behavior]
           /\ bodies' = [bodies EXCEPT ![worm_id] = d.body]
           /\ last' = Record("dead", {<<worm_id, behaviors[worm_id], d.behavior>>}, <<>>)
    /\ died' = Deaths(behaviors, behaviors', died, tick)
    /\ worm_id' = NextWorm(worm_id)
    /\ UNCHANGED rewards
    /\ Static

\* the Chasing arm of update_worms from its call number calls of
\* execute_chasing on: the scene it leaves, the behavior it assigns to the
\* worm and the movements attempted
RECURSIVE ChasingArm(_, _, _, _, _, _, _, _)
ChasingArm(bd, bh, rw, id, p, w, h, calls) ==
    UNION { LET e == ExecuteChasing(bd, bh, rw, id, m)
            IN  IF calls = 1 /\ ChasesAgain(e.behavior)
                THEN {[later EXCEPT !.attempts = <<e.attempt>> \o @]
                        : later \in ChasingArm(e.bodies, e.behaviors, e.rewards, id, p, w, h,
                                               calls + 1)}
                ELSE {[bodies |-> e.bodies, behaviors |-> e.behaviors,
                       behavior |-> e.behavior, attempts |-> <<e.attempt>>]}
            : m \in Movements("Chasing", bd, bh, rw, id, p, w, h) }

\* update_worms, Chasing arm
TurnChasing ==
    /\ InTurn
    /\ behaviors[worm_id].tag = "Chasing"
    /\ \E c \in ChasingArm(bodies, behaviors, rewards, worm_id, params, width, height, 1) :
          /\ bodies' = c.bodies
          /\ behaviors' = [c.behaviors EXCEPT ![worm_id] = c.behavior]
          /\ last' = Record("chasing",
                            Assignments(behaviors, c.behaviors, worm_id)
                              \cup {<<worm_id, behaviors[worm_id], c.behavior>>},
                            c.attempts)
    /\ died' = Deaths(behaviors, behaviors', died, tick)
    /\ worm_id' = NextWorm(worm_id)
    /\ UNCHANGED rewards
    /\ Static

\* ChasingWormMover::collides computes body.size() - 1 for every body it
\* visits, Alive or not: then_some evaluates its argument.  On an empty body
\* the subtraction overflows.  A build with overflow checks panics there; one
\* without wraps, and take() then passes the whole of the empty body, which
\* is what ChasingCollides does.  collides runs for a candidate head that is
\* inside the area.
MayPanic(details, bd, distance) ==
    /\ \E i \in DOMAIN bd : bd[i].size = 0
    /\ \E k \in 0..(N_DIRECTIONS - 1) :
          May(IsInsideArea(details, Copy(details.origin, k, distance)))

\* update_worms, Chasing arm, in a build with overflow checks
TurnChasingPanics ==
    /\ InTurn
    /\ behaviors[worm_id].tag = "Chasing"
    /\ MayPanic(GetMovementDetails(bodies, worm_id, width, height), bodies,
                StepDistance(params))
    /\ panicked' = TRUE
    /\ last' = Record("panic", {}, <<>>)
    /\ UNCHANGED <<gui, width, height, params, behaviors, bodies, rewards, reward_destination,
                   worm_id, n_slots, tick, died>>

\* update_worms, Removed arm
TurnRemoved ==
    /\ InTurn
    /\ behaviors[worm_id].tag = "Removed"
    /\ last' = Record("removed", {}, <<>>)
    /\ worm_id' = NextWorm(worm_id)
    /\ UNCHANGED <<behaviors, bodies, rewards, died>>
    /\ Static

\* one reward of Scene::update_rewards: the moved reward and whether it is kept
NewReward(reward, destination, p, w, h) ==
    UNION { LET new_reward == Copy(reward, direction, p.body_size \div 4)
            IN  {[point |-> new_reward, is_valid |-> is_valid]
                   : is_valid \in
                       AndB(AndB(Leq(new_reward[1], w * Scale, new_reward[3]),
                                 Leq(new_reward[2], h * Scale, new_reward[4])),
                            NotB(DistLess(destination, new_reward, p.body_size)))}
            : direction \in DirectionTo(reward, destination) }

\* Point::rand of update_rewards: used for a reward that is not kept
MoveDraws(reward, destination, p, w, h) ==
    IF \A n \in NewReward(reward, destination, p, w, h) : n.is_valid THEN {Point(0, 0)}
    ELSE RandPoints(w, h)

\* a wander that leaves the reward where it is; C25_EmptyScene tells it from
\* MoveReward
MoveNowhere(reward, destination, p, w, h, rand_point) == {reward}

\* the body of the loop of Scene::update_rewards: what rewards[i] may become
MoveReward(reward, destination, p, w, h, rand_point) ==
    {IF n.is_valid THEN n.point ELSE rand_point
       : n \in NewReward(reward, destination, p, w, h)}

\* Scene::update_rewards, which ends execute(); the next execute() starts its
\* loop over the slots that exist then
UpdateRewards ==
    /\ ~ panicked
    /\ tick < MaxTicks
    /\ worm_id = n_slots
    /\ \E rand \in [DOMAIN rewards -> RandPoints(width, height)] :
          /\ \A i \in DOMAIN rewards :
                rand[i] \in MoveDraws(rewards[i], reward_destination[i], params, width, height)
          /\ rewards' \in [DOMAIN rewards ->
                             UNION {MoveReward(rewards[i], reward_destination[i], params,
                                               width, height, rand[i]) : i \in DOMAIN rewards}]
          /\ \A i \in DOMAIN rewards :
                rewards'[i] \in MoveReward(rewards[i], reward_destination[i], params,
                                           width, height, rand[i])
    /\ last' = Record("rewards", {}, <<>>)
    /\ worm_id' = 0
    /\ n_slots' = Len0(behaviors)
    /\ tick' = tick + 1
    /\ UNCHANGED <<gui, width, height, params, behaviors, bodies, reward_destination,
                   panicked, died>>

\* Scene::resize
SceneResize(w, h) ==
    /\ width' = w
    /\ height' = h
    /\ last' = Record("resize", {}, <<>>)
    /\ UNCHANGED <<params, behaviors, bodies, rewards, reward_destination,
                   worm_id, n_slots, tick, panicked, died>>

\* Scene::resize called between two execute() of a scene on its own, as the
\* end of a frame of the window calls it.  A scene is followed through one
\* change of size, made before the last execute() that is followed: it then
\* falls on every scene the execute() before it can leave.
Resize ==
    /\ ~ panicked
    /\ tick = MaxTicks - 1
    /\ worm_id = 0
    /\ <<width, height>> \notin Sizes
    /\ \E size \in Sizes : SceneResize(size[1], size[2])
    /\ UNCHANGED gui

WorldPoint(p) == Point(p[1] * Scale, p[2] * Scale)

\* Scene::new / SceneContent::rand: every worm is given worm_size segments
SceneNew(p, n_worms, n_rewards) ==
    /\ width = Width
    /\ height = Height
    /\ params = p
    /\ behaviors = [i \in 0..(n_worms - 1) |-> Alive(0)]
    /\ \E dirs \in [0..(n_worms - 1) -> InitDirections] :
          bodies = [i \in 0..(n_worms - 1) |->
                      NewBody(p.worm_size, WorldPoint(Heads(p.worm_size)[i + 1]),
                              dirs[i], p.body_size)]
    /\ \E at \in [0..(n_rewards - 1) -> InitRewards] :
          rewards = [i \in 0..(n_rewards - 1) |-> WorldPoint(at[i])]
    /\ \E at \in [0..(n_rewards - 1) -> InitRewardDestinations] :
          reward_destination = [i \in 0..(n_rewards - 1) |-> WorldPoint(at[i])]
    /\ n_slots = n_worms
    /\ worm_id = 0
    /\ tick = 0
    /\ panicked = FALSE
    /\ died = [i \in DOMAIN behaviors |-> -1]
    /\ last = [op |-> "init", id |-> 0, behaviors |-> behaviors, bodies |-> bodies,
               rewards |-> rewards, died |-> died, assigns |-> {}, attempts |-> <<>>]

\* a scene on its own, as Scene::new has built it
Init ==
    /\ \E p \in SceneParams, population \in WormCounts \X RewardCounts :
          /\ population \in Populations(p.worm_size)
          /\ SceneNew(p, population[1], population[2])
    /\ gui = NoGui

Next ==
    \/ TurnSplit
    \/ TurnAlive
    \/ TurnDead
    \/ TurnChasing
    \/ TurnChasingPanics
    \/ TurnRemoved
    \/ UpdateRewards
    \/ Resize

Spec == Init /\ [][Next]_vars

-----------------------------------------------------------------------------
(* Scenes at the turn of a full worm, for every spawn size.  A worm is full *)
(* after feeding to capacity; the slots beside it hold what earlier ticks   *)
(* can leave there: a removed worm, a dead one, a live one.                 *)

SplitNeighbours == {Removed, Dead(0), Alive(0)}

SplitInit ==
    /\ width = Width
    /\ height = Height
    /\ params \in [worm_size : 1..MAX_SIZE, body_size : BodySizes,
                   starvation : {0}, expiration : {0}]
    /\ \E donor \in 0..(SplitSlots - 1) :
          \E around \in [0..(SplitSlots - 1) -> SplitNeighbours] :
              /\ around[donor] = Alive(0)
              /\ behaviors = around
              /\ bodies = [i \in 0..(SplitSlots - 1) |->
                            LET at == WorldPoint(<<i % (Width + 1), 0>>)
                                dir == CHOOSE d \in InitDirections : TRUE
                                spawned == NewBody(params.worm_size, at, dir, params.body_size)
                            IN  IF i = donor
                                THEN NewBody(MAX_SIZE, at, dir, params.body_size)
                                ELSE IF around[i] = Removed THEN SetSize(spawned, 0)
                                ELSE spawned]
              /\ worm_id = donor
    /\ rewards = [i \in {} |-> Point(0, 0)]
    /\ reward_destination = rewards
    /\ n_slots = SplitSlots
    /\ tick = 0
    /\ panicked = FALSE
    /\ gui = NoGui
    /\ died = [i \in DOMAIN behaviors |-> IF behaviors[i].tag = "Dead" THEN 0 ELSE -1]
    /\ last = [op |-> "init", id |-> 0, behaviors |-> behaviors, bodies |-> bodies,
               rewards |-> rewards, died |-> died, assigns |-> {}, attempts |-> <<>>]

SplitNext == TurnSplit

SplitSpec == SplitInit /\ [][SplitNext]_vars

-----------------------------------------------------------------------------
(* Scenes at the turn of a Chasing worm whose head is one step from the     *)
(* tail of an Alive worm, for every size of the two.  The chaser's head and *)
(* the target's tail lie in the world; the bodies trail out of it side by   *)
(* side, as they do after the world has been resized.                       *)

MergeSizes == 1..MAX_SIZE

MergeCounters == {0, 1}

MergeInit ==
    /\ width = Width
    /\ height = Height
    /\ params \in [worm_size : {1}, body_size : BodySizes,
                   starvation : {MAX_SIZE}, expiration : {0}]
    /\ \E chaser \in 0..1, c \in MergeSizes, t \in MergeSizes, counter \in MergeCounters :
          LET dir == CHOOSE d \in InitDirections : TRUE
              step == DirectionVector(dir, StepDistance(params))
              tail == WorldPoint(<<1, 0>>)
              head == Point(tail[1] + (t - 1) * step[1], tail[2] + (t - 1) * step[2])
              back == (dir + N_DIRECTIONS \div 2) % N_DIRECTIONS
          IN  /\ behaviors = [i \in 0..1 |-> IF i = chaser THEN Chasing ELSE Alive(counter)]
              /\ bodies = [i \in 0..1 |->
                            IF i = chaser
                            THEN NewBody(c, WorldPoint(<<0, 0>>), dir, params.body_size)
                            ELSE NewBody(t, head, back, params.body_size)]
              /\ worm_id = chaser
    /\ rewards = [i \in {} |-> Point(0, 0)]
    /\ reward_destination = rewards
    /\ n_slots = 2
    /\ tick = 0
    /\ panicked = FALSE
    /\ gui = NoGui
    /\ died = [i \in DOMAIN behaviors |-> -1]
    /\ last = [op |-> "init", id |-> 0, behaviors |-> behaviors, bodies |-> bodies,
               rewards |-> rewards, died |-> died, assigns |-> {}, attempts |-> <<>>]

MergeNext == TurnChasing

MergeSpec == MergeInit /\ [][MergeNext]_vars

-----------------------------------------------------------------------------
(* One body on its own.  The arguments of WormBody::new are drawn, for     *)
(* every size and direction, over a body as WormBody::default makes it;    *)
(* the body is built, or left as it is, then rolled, grown, shrunk and      *)
(* resized in any order.  tick counts the calls made after new.             *)

BodyDirections == 0..(N_DIRECTIONS - 1)

BodyHeads == {WorldPoint(<<1, 0>>)}

CallParts == {WorldPoint(<<1, 1>>)}

\* history: the call just made and its arguments, with the body before it,
\* and the call made before that one with the body before it
BodyRecord(op, call, prev) ==
    [op |-> op, id |-> 0, behaviors |-> behaviors, bodies |-> bodies,
     rewards |-> rewards, died |-> died, assigns |-> {}, attempts |-> <<>>,
     call |-> call, prev |-> prev]

\* history: the call a new call follows
Earlier == [op |-> last.op, body |-> last.bodies[0], call |-> last.call]

BodyInit ==
    /\ width = Width
    /\ height = Height
    /\ params \in [worm_size : 1..MAX_SIZE, body_size : BodySizes,
                   starvation : {0}, expiration : {0}]
    /\ behaviors = [i \in {0} |-> Alive(0)]
    /\ bodies = [i \in {0} |-> DefaultBody]
    /\ rewards = [i \in {} |-> Point(0, 0)]
    /\ reward_destination = rewards
    /\ worm_id = 0
    /\ n_slots = 1
    /\ tick = 0
    /\ panicked = FALSE
    /\ gui = NoGui
    /\ died = [i \in {0} |-> -1]
    /\ \E head \in BodyHeads, direction \in BodyDirections :
          last = BodyRecord("draw", [size |-> params.worm_size, head |-> head,
                                     direction |-> direction,
                                     part_size |-> params.body_size],
                            [op |-> "none"])

\* WormBody::new, called with the arguments drawn
BodyNew ==
    /\ last.op = "draw"
    /\ bodies' = [bodies EXCEPT ![0] = NewBody(last.call.size, last.call.head,
                                               last.call.direction, last.call.part_size)]
    /\ last' = BodyRecord("new", last.call, Earlier)
    /\ UNCHANGED <<gui, width, height, params, behaviors, rewards, reward_destination,
                   worm_id, n_slots, tick, panicked, died>>

\* WormBody::roll, called with some part and target
BodyRoll ==
    /\ tick < MaxCalls
    /\ \E part \in CallParts, target \in CallParts :
          /\ bodies' = [bodies EXCEPT ![0] = Roll(bodies[0], part, target)]
          /\ last' = BodyRecord("roll", [part |-> part, target |-> target], Earlier)
    /\ tick' = tick + 1
    /\ UNCHANGED <<gui, width, height, params, behaviors, rewards, reward_destination,
                   worm_id, n_slots, panicked, died>>

\* WormBody::grow, called with some part
BodyGrow ==
    /\ tick < MaxCalls
    /\ \E part \in CallParts :
          /\ bodies' = [bodies EXCEPT ![0] = Grow(bodies[0], part)]
          /\ last' = BodyRecord("grow", [part |-> part], Earlier)
    /\ tick' = tick + 1
    /\ UNCHANGED <<gui, width, height, params, behaviors, rewards, reward_destination,
                   worm_id, n_slots, panicked, died>>

\* WormBody::shrink(1), as merge_worms calls it: on a body with a segment
BodyShrink ==
    /\ tick < MaxCalls
    /\ bodies[0].size >= 1
    /\ bodies' = [bodies EXCEPT ![0] = Shrink(bodies[0], 1)]
    /\ last' = BodyRecord("shrink", [size |-> 1], Earlier)
    /\ tick' = tick + 1
    /\ UNCHANGED <<gui, width, height, params, behaviors, rewards, reward_destination,
                   worm_id, n_slots, panicked, died>>

\* the sizes Scene calls set_size with, all below the size the body has:
\* none (a removal) and what a split or a merge leaves of a body
SetSizes(b) == {n \in {0, b.size \div 2, b.size - 1} : n >= 0 /\ n < b.size}

\* WormBody::set_size
BodySetSize ==
    /\ tick < MaxCalls
    /\ \E size \in SetSizes(bodies[0]) :
          /\ bodies' = [bodies EXCEPT ![0] = SetSize(bodies[0], size)]
          /\ last' = BodyRecord("set_size", [size |-> size], Earlier)
    /\ tick' = tick + 1
    /\ UNCHANGED <<gui, width, height, params, behaviors, rewards, reward_destination,
                   worm_id, n_slots, panicked, died>>

BodyNext == BodyNew \/ BodyRoll \/ BodyGrow \/ BodyShrink \/ BodySetSize

BodySpec == BodyInit /\ [][BodyNext]_vars

-----------------------------------------------------------------------------
(* One Rotator on its own, for every seed direction direction_to can give   *)
(* and either handedness, with next called on it again and again.  The     *)
(* scene around it is empty; the Rotator and the Options it has yielded are *)
(* kept in last, and tick counts the calls of next.                         *)

SeedDirections == (-(N_DIRECTIONS \div 2))..(N_DIRECTIONS \div 2)

\* Rotator::new with the handedness drawn
RotatorInit ==
    /\ width = Width
    /\ height = Height
    /\ params \in [worm_size : {1}, body_size : BodySizes,
                   starvation : {0}, expiration : {0}]
    /\ behaviors = [i \in {} |-> Removed]
    /\ bodies = [i \in {} |-> DefaultBody]
    /\ rewards = [i \in {} |-> Point(0, 0)]
    /\ reward_destination = rewards
    /\ worm_id = 0
    /\ n_slots = 0
    /\ tick = 0
    /\ panicked = FALSE
    /\ gui = NoGui
    /\ died = [i \in {} |-> -1]
    /\ \E direction \in SeedDirections, rotation \in Rotations :
          last = [op |-> "rotator",
                  rotator |-> [direction |-> direction, times |-> 0, rotation |-> rotation],
                  yielded |-> <<>>]

\* Rotator::next
RotatorCall ==
    /\ tick < MaxNexts
    /\ last' = LET r == last.rotator
               IN  IF r.times = N_DIRECTIONS
                   THEN [last EXCEPT !.op = "next", !.yielded = Append(@, <<>>)]
                   ELSE [last EXCEPT
                           !.op = "next",
                           !.rotator.times = r.times + 1,
                           !.yielded = Append(@, <<RotatorNext(r.direction, r.times + 1,
                                                               r.rotation)>>)]
    /\ tick' = tick + 1
    /\ UNCHANGED <<gui, width, height, params, behaviors, bodies, rewards, reward_destination,
                   worm_id, n_slots, panicked, died>>

RotatorSpec == RotatorInit /\ [][RotatorCall]_vars

-----------------------------------------------------------------------------
(* roll and grow on short bodies, fresh from new or with the head one roll
   or two before the end of the array, with the points put in remembered *)

MaxRollSize == 3

MaxRolls == 5

\* the points a call puts in, and the targets it sets
RollParts == {WorldPoint(<<1, 1>>), WorldPoint(<<2, 1>>)}

\* a body of n segments: as new makes it, or what shrink(1) and set_size(n)
\* leave of a body new made full, its head at index MAX_SIZE - 2
RollBodies(n, head, part_size) ==
    {NewBody(n, head, 0, part_size),
     SetSize(Shrink(NewBody(MAX_SIZE, head, 0, part_size), 1), n)}

RollInit ==
    /\ width = Width
    /\ height = Height
    /\ params \in [worm_size : 1..MaxRollSize, body_size : BodySizes,
                   starvation : {0}, expiration : {0}]
    /\ behaviors = [i \in {0} |-> Alive(0)]
    /\ \E head \in BodyHeads :
          \E b \in RollBodies(params.worm_size, head, params.body_size) :
              bodies = [i \in {0} |-> b]
    /\ rewards = [i \in {} |-> Point(0, 0)]
    /\ reward_destination = rewards
    /\ worm_id = 0
    /\ n_slots = 1
    /\ tick = 0
    /\ panicked = FALSE
    /\ gui = NoGui
    /\ died = [i \in {0} |-> -1]
    /\ last = [op |-> "init", body |-> bodies[0], call |-> [part |-> Point(0, 0)],
               rolled |-> <<>>]

\* WormBody::roll
RollCall ==
    /\ tick < MaxRolls
    /\ \E part \in RollParts, target \in RollParts :
          /\ bodies' = [bodies EXCEPT ![0] = Roll(bodies[0], part, target)]
          /\ last' = [op |-> "roll", body |-> bodies[0],
                      call |-> [part |-> part, target |-> target],
                      rolled |-> <<part>> \o last.rolled]
    /\ tick' = tick + 1
    /\ UNCHANGED <<gui, width, height, params, behaviors, rewards, reward_destination,
                   worm_id, n_slots, panicked, died>>

\* WormBody::grow
GrowCall ==
    /\ tick < MaxRolls
    /\ \E part \in RollParts :
          /\ bodies' = [bodies EXCEPT ![0] = Grow(bodies[0], part)]
          /\ last' = [op |-> "grow", body |-> bodies[0], call |-> [part |-> part],
                      rolled |-> <<part>> \o last.rolled]
    /\ tick' = tick + 1
    /\ UNCHANGED <<gui, width, height, params, behaviors, rewards, reward_destination,
                   worm_id, n_slots, panicked, died>>

RollNext == RollCall \/ GrowCall

RollSpec == RollInit /\ [][RollNext]_vars

-----------------------------------------------------------------------------
(* the fold of split_worm and of tests::fill on its own: slot 0 holds a donor
   of any size, slot 1 an empty body with its head index anywhere *)

\* a donor of n segments: as new makes it, or what set_size(n) leaves of a
\* full body rolled twice, whose segments run over the end of the array
FillDonors(n, head, part_size) ==
    {NewBody(n, head, 0, part_size),
     SetSize(Roll(Roll(NewBody(MAX_SIZE, head, 0, part_size),
                       WorldPoint(<<1, 1>>), WorldPoint(<<1, 1>>)),
                  WorldPoint(<<2, 1>>), WorldPoint(<<2, 1>>)), n)}

\* an empty body with start index s: what set_size(0) leaves of a worm
FillEmpty(s, part_size) == SetSize(NewBody(s + 1, WorldPoint(<<0, 1>>), 0, part_size), 0)

FillInit ==
    /\ width = Width
    /\ height = Height
    /\ params \in [worm_size : 1..MAX_SIZE, body_size : BodySizes,
                   starvation : {0}, expiration : {0}]
    /\ behaviors = [i \in 0..1 |-> IF i = 0 THEN Alive(0) ELSE Removed]
    /\ \E head \in BodyHeads, s \in Indices :
          \E donor \in FillDonors(params.worm_size, head, params.body_size) :
              bodies = [i \in 0..1 |-> IF i = 0 THEN donor
                                       ELSE FillEmpty(s, params.body_size)]
    /\ rewards = [i \in {} |-> Point(0, 0)]
    /\ reward_destination = rewards
    /\ worm_id = 0
    /\ n_slots = 2
    /\ tick = 0
    /\ panicked = FALSE
    /\ gui = NoGui
    /\ died = [i \in 0..1 |-> -1]
    /\ \E m \in 0..params.worm_size : last = [op |-> "draw", take |-> m]

\* iter().rev().take(m) .. grow, from slot 0 into slot 1
FillCall ==
    /\ last.op = "draw"
    /\ bodies' = [bodies EXCEPT ![1] = GrowAll(bodies[1], RevSeq(bodies[0]), last.take)]
    /\ last' = [op |-> "fill", take |-> last.take]
    /\ UNCHANGED <<gui, width, height, params, behaviors, rewards, reward_destination,
                   worm_id, n_slots, tick, panicked, died>>

FillSpec == FillInit /\ [][FillCall]_vars

-----------------------------------------------------------------------------
(* one WormBodyIterator over the body of slot 0, called from either end;
   last holds its counter and what each end has yielded *)

MaxIterSize == 4

MaxIterCalls == 6

\* the entry next_back reads when the counter, already advanced, is counter
BackItem(b, counter) == b.parts[(MAX_SIZE + b.start + counter - b.size) % MAX_SIZE]

\* WormBody::iter on a body of 0 to MaxIterSize segments
IterInit ==
    /\ width = Width
    /\ height = Height
    /\ params \in [worm_size : 1..MaxIterSize, body_size : BodySizes,
                   starvation : {0}, expiration : {0}]
    /\ behaviors = [i \in {0} |-> Alive(0)]
    /\ \E head \in BodyHeads :
          \E b \in FillDonors(params.worm_size, head, params.body_size)
                    \cup {FillEmpty(0, params.body_size)} :
              bodies = [i \in {0} |-> b]
    /\ rewards = [i \in {} |-> Point(0, 0)]
    /\ reward_destination = rewards
    /\ worm_id = 0
    /\ n_slots = 1
    /\ tick = 0
    /\ panicked = FALSE
    /\ gui = NoGui
    /\ died = [i \in {0} |-> -1]
    /\ last = [op |-> "iter", counter |-> 0, front |-> <<>>, back |-> <<>>, none |-> FALSE]

\* WormBodyIterator::next
IterNext ==
    /\ tick < MaxIterCalls
    /\ last' = IF last.counter < bodies[0].size
               THEN [op |-> "next", counter |-> last.counter + 1,
                     front |-> Append(last.front, IterItem(bodies[0], last.counter + 1)),
                     back |-> last.back, none |-> FALSE]
               ELSE [last EXCEPT !.op = "next", !.none = TRUE]
    /\ tick' = tick + 1
    /\ UNCHANGED <<gui, width, height, params, behaviors, bodies, rewards, reward_destination,
                   worm_id, n_slots, panicked, died>>

\* WormBodyIterator::next_back
IterNextBack ==
    /\ tick < MaxIterCalls
    /\ last' = IF last.counter < bodies[0].size
               THEN [op |-> "next_back", counter |-> last.counter + 1,
                     front |-> last.front,
                     back |-> Append(last.back, BackItem(bodies[0], last.counter + 1)),
                     none |-> FALSE]
               ELSE [last EXCEPT !.op = "next_back", !.none = TRUE]
    /\ tick' = tick + 1
    /\ UNCHANGED <<gui, width, height, params, behaviors, bodies, rewards, reward_destination,
                   worm_id, n_slots, panicked, died>>

IterCalls == IterNext \/ IterNextBack

IterSpec == IterInit /\ [][IterCalls]_vars

-----------------------------------------------------------------------------
(* The window: gui.rs.  gui holds the fields of SimInterface (whether config
   and scene are set, tick_interval, width and height as the casts to usize
   read them), where the thread of the window is in update (pc), the number
   of clicks made, and for each thread start has spawned where it is:
   "ready" to call tick_simulation, "executing" with the lock of the scene
   held, "sleeping" after a tick with a non-zero timer, "done" after the
   break, "panicked" after a panic in execute.  The scene of the interface
   is held in the variables of the scene; they are placeholders while there
   is none.  An action is one critical section of the code, or one turn of
   an execute() made with the lock of the scene held.

   The mutex of epaint does not poison: a thread that panics with the lock
   held releases it as it unwinds.  A panic in the thread of the window ends
   the program. *)

MaxThreads == 2

MaxClicks == 3

\* the interval a configuration gives, in milliseconds
DefaultInterval == 200

\* the execute() calls reset_simulation makes on a new scene
ResetExecutes == 50

\* What read_default may return, as far as the scenes are followed: the
\* scene parameters, no worm, and the numbers of rewards.  A configuration
\* with worms would have reset_simulation run ResetExecutes execute() with
\* worms before the scene is seen, which is beyond what is explored.
ResetParams ==
    [worm_size : {1}, body_size : BodySizes,
     starvation : Starvations, expiration : Expirations]

ResetRewardCounts == {0, 1}

\* the scenes SimInterface::from is given, as Scene::new builds them: the
\* parameters, the number of worms and the number of rewards.  Two
\* single-segment worms under timers of 0, and one worm at capacity.
FromScenes ==
    {<<[worm_size |-> 1, body_size |-> b, starvation |-> 0, expiration |-> 0], 2, 0>>
       : b \in BodySizes}
    \cup {<<[worm_size |-> MAX_SIZE, body_size |-> b, starvation |-> 0, expiration |-> 0],
             1, 0>> : b \in BodySizes}

\* where a reward may be after n execute() of a scene without worms
Wander(at, destination, p, w, h, n) ==
    LET after[k \in 0..n] ==
            IF k = 0 THEN at
            ELSE UNION {MoveReward(reward, destination, p, w, h, rand)
                          : reward \in after[k - 1], rand \in RandPoints(w, h)}
    IN  after[n]

\* the sizes the game panel has in a frame, as <<width, height>>
FrameSizes == {<<Width - 1, Height>>}

\* the sizes of the window reset_simulation may read: what a frame has set,
\* and f32::default() before the first frame
WindowSizes == FrameSizes \cup {<<0, 0>>}

\* where a reward of a scene without worms may be after the execute() calls
\* of reset_simulation: the size of the world, the parameters, the place
\* the reward was drawn at and its destination, with a place it may have
Settled ==
    UNION { UNION { {<<size, p, from, to, at>>
                       : at \in Wander({from}, to, p, size[1], size[2], ResetExecutes)}
                    : from \in RandPoints(size[1], size[2]),
                      to \in RandPoints(size[1], size[2]) }
            : size \in WindowSizes, p \in ResetParams }

\* the lock of the scene is held from the call of execute() to its return
LockFree ==
    /\ gui.pc # "step_executing"
    /\ \A i \in 1..Len(gui.threads) : gui.threads[i] # "executing"

\* the program runs until the thread of the window panics
Running == ~ (panicked /\ gui.pc = "step_executing")

\* an execute() is under way: it was called at tick began and has not
\* ended; began is tick when none is
Executing == ~ LockFree /\ tick = gui.began

\* SimInterface::new (nothing set) and SimInterface::from (a scene set)
GuiInit ==
    /\ \/ /\ width = 0
          /\ height = 0
          /\ params \in ResetParams
          /\ behaviors = [i \in {} |-> Removed]
          /\ bodies = [i \in {} |-> DefaultBody]
          /\ rewards = [i \in {} |-> Point(0, 0)]
          /\ reward_destination = rewards
          /\ worm_id = 0
          /\ n_slots = 0
          /\ tick = 0
          /\ panicked = FALSE
          /\ died = [i \in {} |-> -1]
          /\ last = [op |-> "new"]
          /\ gui = [config |-> FALSE, scene |-> FALSE, tick_interval |-> 0,
                    width |-> 0, height |-> 0, pc |-> "idle", clicks |-> 0,
                    began |-> 0, threads |-> <<>>]
       \/ /\ \E scene \in FromScenes : SceneNew(scene[1], scene[2], scene[3])
          /\ gui = [config |-> FALSE, scene |-> TRUE, tick_interval |-> 0,
                    width |-> 0, height |-> 0, pc |-> "idle", clicks |-> 0,
                    began |-> 0, threads |-> <<>>]

\* reset_simulation: a configuration is read, a scene is built for the size
\* of the window as the last frame left it and is run for ResetExecutes
\* execute(); then config is set and the scene replaces the one there was,
\* under its lock.  g is the interface as the caller goes on with it.
ResetSimulation(g) ==
    /\ LockFree
    /\ \E p \in ResetParams, n_rewards \in ResetRewardCounts :
          \E from \in [0..(n_rewards - 1) -> RandPoints(gui.width, gui.height)],
             to \in [0..(n_rewards - 1) -> RandPoints(gui.width, gui.height)] :
             /\ params' = p
             /\ reward_destination' = to
             /\ rewards' \in [0..(n_rewards - 1) -> {s[5] : s \in Settled}]
             /\ \A i \in 0..(n_rewards - 1) :
                   <<<<gui.width, gui.height>>, p, from[i], to[i], rewards'[i]>> \in Settled
    /\ width' = gui.width
    /\ height' = gui.height
    /\ behaviors' = [i \in {} |-> Removed]
    /\ bodies' = [i \in {} |-> DefaultBody]
    /\ worm_id' = 0
    /\ n_slots' = 0
    /\ tick' = 0
    /\ panicked' = FALSE
    /\ died' = [i \in {} |-> -1]
    /\ last' = [op |-> "reset"]
    /\ gui' = [g EXCEPT !.config = TRUE, !.scene = TRUE, !.began = 0]

SceneStatic ==
    UNCHANGED <<width, height, params, behaviors, bodies, rewards, reward_destination,
                worm_id, n_slots, tick, panicked, died, last>>

\* the Reset button is clicked: reset_simulation
GuiReset ==
    /\ Running
    /\ gui.pc = "idle"
    /\ gui.clicks < MaxClicks
    /\ Len(gui.threads) < MaxThreads
    /\ ResetSimulation([gui EXCEPT !.pc = "reset_read", !.clicks = @ + 1])

\* the Reset button, after reset_simulation: the interval is read, and start
\* is called if it is 0
GuiResetRead ==
    /\ Running
    /\ gui.pc = "reset_read"
    /\ gui' = [gui EXCEPT !.pc = IF gui.tick_interval = 0 THEN "start_write" ELSE "panel"]
    /\ SceneStatic

\* SimInterface::start: the interval is set if there is a config
StartWrite ==
    /\ Running
    /\ gui.pc = "start_write"
    /\ gui' = [gui EXCEPT !.tick_interval = IF gui.config THEN DefaultInterval ELSE @,
                          !.pc = "start_spawn"]
    /\ SceneStatic

\* SimInterface::start: the thread is spawned
StartSpawn ==
    /\ Running
    /\ gui.pc = "start_spawn"
    /\ gui' = [gui EXCEPT !.threads = Append(@, "ready"), !.pc = "panel"]
    /\ SceneStatic

\* the Step button is clicked: the interval is set to 0
GuiStep ==
    /\ Running
    /\ gui.pc = "idle"
    /\ gui.clicks < MaxClicks
    /\ gui' = [gui EXCEPT !.tick_interval = 0, !.pc = "step_lock", !.clicks = @ + 1]
    /\ SceneStatic

\* the Step button, after the interval is set: the scene is locked, and
\* execute() is called if there is one
GuiStepLock ==
    /\ Running
    /\ gui.pc = "step_lock"
    /\ LockFree
    /\ gui.scene => tick < MaxTicks
    /\ gui' = [gui EXCEPT !.pc = IF gui.scene THEN "step_executing" ELSE "step_reset"]
    /\ SceneStatic

\* the Step button: execute() has returned and the lock is released
GuiStepDone ==
    /\ gui.pc = "step_executing"
    /\ ~ panicked
    /\ tick # gui.began
    /\ gui' = [gui EXCEPT !.pc = "panel", !.began = tick]
    /\ SceneStatic

\* the Step button when there was no scene: reset_simulation
GuiStepReset ==
    /\ Running
    /\ gui.pc = "step_reset"
    /\ ResetSimulation([gui EXCEPT !.pc = "panel"])

\* the Continue button is clicked: the interval is read, and start is called
\* if it is 0
GuiContinue ==
    /\ Running
    /\ gui.pc = "idle"
    /\ gui.clicks < MaxClicks
    /\ Len(gui.threads) < MaxThreads
    /\ gui' = [gui EXCEPT !.pc = IF gui.tick_interval = 0 THEN "start_write" ELSE "panel",
                          !.clicks = @ + 1]
    /\ SceneStatic

\* the game panel of a frame, after the buttons or without a click: width
\* and height are set to what the panel has, and get_shapes reads the scene
\* under its lock
GuiPanel ==
    /\ Running
    /\ gui.pc \in {"idle", "panel"}
    /\ LockFree
    /\ \E size \in FrameSizes :
          gui' = [gui EXCEPT !.width = size[1], !.height = size[2], !.pc = "resize"]
    /\ SceneStatic

\* the end of a frame: the scene, if there is one, is resized under its lock
GuiResize ==
    /\ Running
    /\ gui.pc = "resize"
    /\ LockFree
    /\ IF gui.scene THEN SceneResize(gui.width, gui.height) ELSE SceneStatic
    /\ gui' = [gui EXCEPT !.pc = "idle"]

\* tick_simulation locks the scene: execute() is called if there is one, and
\* the thread breaks if there is none
TickerTick ==
    /\ Running
    /\ LockFree
    /\ gui.scene => tick < MaxTicks
    /\ \E i \in 1..Len(gui.threads) :
          /\ gui.threads[i] = "ready"
          /\ gui' = [gui EXCEPT !.threads[i] = IF gui.scene THEN "executing" ELSE "done"]
    /\ SceneStatic

\* one turn of the execute() under way, or its update_rewards
GuiExecute ==
    \/ Running /\ Executing /\ TurnSplit
    \/ Running /\ Executing /\ TurnAlive
    \/ Running /\ Executing /\ TurnDead
    \/ Running /\ Executing /\ TurnChasing
    \/ Running /\ Executing /\ TurnChasingPanics
    \/ Running /\ Executing /\ TurnRemoved
    \/ Running /\ Executing /\ UpdateRewards

\* tick_simulation after execute(): the interval is read with the lock of
\* the scene still held; the thread sleeps if it is not 0 and breaks
\* otherwise
TickerRead ==
    /\ Running
    /\ ~ panicked
    /\ tick # gui.began
    /\ \E i \in 1..Len(gui.threads) :
          /\ gui.threads[i] = "executing"
          /\ gui' = [gui EXCEPT !.threads[i] = IF gui.tick_interval # 0
                                               THEN "sleeping" ELSE "done",
                                !.began = tick]
    /\ SceneStatic

\* execute() has panicked in a ticker thread: the thread ends, the lock is
\* released, and the scene stays as the panic left it; the next execute()
\* starts its loop anew
TickerPanics ==
    /\ panicked
    /\ \E i \in 1..Len(gui.threads) :
          /\ gui.threads[i] = "executing"
          /\ gui' = [gui EXCEPT !.threads[i] = "panicked", !.began = tick + 1]
    /\ panicked' = FALSE
    /\ worm_id' = 0
    /\ n_slots' = Len0(behaviors)
    /\ tick' = tick + 1
    /\ last' = Record("unwind", {}, <<>>)
    /\ UNCHANGED <<width, height, params, behaviors, bodies, rewards, reward_destination,
                   died>>

\* the sleep of a ticker thread ends
TickerWake ==
    /\ Running
    /\ \E i \in 1..Len(gui.threads) :
          /\ gui.threads[i] = "sleeping"
          /\ gui' = [gui EXCEPT !.threads[i] = "ready"]
    /\ SceneStatic

GuiNext ==
    \/ GuiReset
    \/ GuiResetRead
    \/ StartWrite
    \/ StartSpawn
    \/ GuiStep
    \/ GuiStepLock
    \/ GuiStepDone
    \/ GuiStepReset
    \/ GuiContinue
    \/ GuiPanel
    \/ GuiResize
    \/ TickerTick
    \/ GuiExecute
    \/ TickerRead
    \/ TickerPanics
    \/ TickerWake

GuiSpec == GuiInit /\ [][GuiNext]_vars

-----------------------------------------------------------------------------
(* select_target on its own: a mover of one segment in a world wide enough
   to hold points beyond the vision distance, with up to two candidates *)

SelectWidth == 400

SelectHeight == 1

SelectOrigin == WorldPoint(<<2, 0>>)

\* remembered destinations: ahead and near, ahead and beyond the vision
\* distance, a quarter turn to the left and near
SelectDestinations == {WorldPoint(<<3, 0>>), WorldPoint(<<303, 0>>), WorldPoint(<<2, 1>>)}

\* where a reward or a target's tail is
SelectPoints ==
    {WorldPoint(<<3, 0>>), WorldPoint(<<2, 1>>), WorldPoint(<<4, 0>>),
     WorldPoint(<<0, 0>>), WorldPoint(<<303, 0>>)}

SelectTags == {"Alive", "Dead"}

SelectInit ==
    /\ width = SelectWidth
    /\ height = SelectHeight
    /\ params \in [worm_size : {1}, body_size : BodySizes,
                   starvation : {MAX_SIZE}, expiration : {MAX_SIZE}]
    /\ \E destination \in SelectDestinations, n \in 0..2, kind \in {"Alive", "Chasing"} :
       \E at \in [0..(n - 1) -> SelectPoints], tags \in [1..n -> SelectTags] :
          LET mover == [NewBody(1, SelectOrigin, 0, params.body_size)
                          EXCEPT !.target = destination]
          IN  IF kind = "Alive"
              THEN /\ \A i \in 1..n : tags[i] = "Alive"
                   /\ behaviors = [i \in {0} |-> Alive(0)]
                   /\ bodies = [i \in {0} |-> mover]
                   /\ rewards = at
              ELSE /\ behaviors = [i \in 0..n |->
                                     IF i = 0 THEN Chasing
                                     ELSE IF tags[i] = "Alive" THEN Alive(0) ELSE Dead(0)]
                   /\ bodies = [i \in 0..n |->
                                  IF i = 0 THEN mover
                                  ELSE NewBody(1, at[i - 1], 0, params.body_size)]
                   /\ rewards = [i \in {} |-> Point(0, 0)]
    /\ reward_destination = rewards
    /\ worm_id = 0
    /\ n_slots = Len0(behaviors)
    /\ tick = 0
    /\ panicked = FALSE
    /\ gui = NoGui
    /\ died = [i \in DOMAIN behaviors |-> -1]
    /\ last = [op |-> "draw"]

\* one call of select_target by the mover of slot 0
SelectCall(kind) ==
    /\ tick = 0
    /\ behaviors[0].tag = kind
    /\ LET details == GetMovementDetails(bodies, 0, width, height)
           targets == Targets(kind, bodies, behaviors, rewards)
       IN  \E rand_point \in PointDraws(details, ValidTargets(details, targets)) :
           \E selected \in SelectTarget(details, targets, ValidTargets(details, targets),
                                        rand_point) :
               last' = [op |-> "select_target", kind |-> kind, details |-> details,
                        selected |-> selected]
    /\ tick' = tick + 1
    /\ UNCHANGED <<gui, width, height, params, behaviors, bodies, rewards, reward_destination,
                   worm_id, n_slots, panicked, died>>

\* AliveWormMover::select_target
SelectAlive == SelectCall("Alive")

\* ChasingWormMover::select_target
SelectChasing == SelectCall("Chasing")

SelectNext == SelectAlive \/ SelectChasing

SelectSpec == SelectInit /\ [][SelectNext]_vars

-----------------------------------------------------------------------------
(* Properties.  They read the step just taken from last (the scene it       *)
(* started from, its assignments and movements) and its outcome from the    *)
(* current scene.                                                           *)

\* the slot of the turn just taken, before and after it
Before == last.bodies[last.id]

After == bodies[last.id]

MoverTurn == last.op \in {"alive", "chasing"}

MoverKind == IF last.op = "alive" THEN "Alive" ELSE "Chasing"

\* the points one step away from a point, one for each direction a Rotator
\* can yield: a seed of direction_to, -16 .. 16, turned by -16 .. 16
Steps(origin) ==
    {Copy(origin, k, StepDistance(params)) : k \in (-N_DIRECTIONS)..N_DIRECTIONS}

\* whether the candidate head k turns from the seed was inside the world
\* and collided with nothing when the turn's first movement ran
Candidate(k) ==
    LET details == GetMovementDetails(last.bodies, last.id, width, height)
        distance == StepDistance(params)
    IN  IsValidHead(MoverKind, details, last.bodies, last.behaviors, last.rewards,
                    Copy(details.origin, last.attempts[1].seed + k, distance), distance)

\* the turns of a Rotator of either handedness whose candidate head was
\* acceptable whatever the roundings
Acceptable ==
    {k \in (1 - N_DIRECTIONS \div 2)..(N_DIRECTIONS \div 2 - 1) : Must(Candidate(k))}

\* the turns whose candidate head may have been acceptable; the last turn
\* of a Rotator is -16 or 16 by its handedness
MaybeAcceptable ==
    {k \in (-(N_DIRECTIONS \div 2))..(N_DIRECTIONS \div 2) : May(Candidate(k))}

\* the segments of a body rolled onto a new head: the head, then the old
\* segments but the last
Rolled(segments, head) == SubSeq(<<head>> \o segments, 1, Len(segments))

\* C1 (as claimed): execute_movement returns None if and only if none of the
\* 32 candidate heads is inside the world and free of collisions, so a worm
\* goes to Dead(0) only in a turn in which it had no acceptable move.
C1_NoneIffNoCandidate ==
    MoverTurn =>
        /\ last.attempts[1].result.kind = "None" => Acceptable = {}
        /\ last.attempts[1].result.kind # "None" => MaybeAcceptable # {}
        /\ (Len(last.attempts) = 1 /\ behaviors[last.id] = Dead(0)) => Acceptable = {}

\* one assignment old -> new to the behavior of a slot is an edge of the
\* life cycle
Edge(slot, old, new) ==
    \/ /\ old.tag = "Alive"
       /\ slot = last.id
       /\ last.op \in {"alive", "split"}
       /\ new \in {Alive(old.counter + 1), Alive(0), Chasing, Dead(0)}
    \/ /\ old.tag = "Alive"
       /\ slot # last.id
       /\ last.op = "chasing"
       /\ new = Removed
       /\ bodies[slot].size = 0
       /\ \E k \in DOMAIN last.attempts :
             /\ last.attempts[k].result.kind = "TargetHit"
             /\ last.attempts[k].result.id = slot
    \/ /\ old = Chasing
       /\ slot = last.id
       /\ last.op = "chasing"
       /\ new \in {Chasing, Alive(0), Dead(0)}
    \/ /\ old.tag = "Dead"
       /\ slot = last.id
       /\ last.op = "dead"
       /\ new \in {Dead(old.counter + 1), Removed}
    \/ /\ old = Removed
       /\ slot # last.id
       /\ last.op = "split"
       /\ new = Alive(0)

\* C2: every assignment to a slot's behavior is an edge of the life cycle:
\* Alive(c) to Alive(c+1), Alive(0), Chasing or Dead(0) in its own turn, Alive
\* to Removed as a fully absorbed merge target, Chasing to Chasing, Alive(0)
\* or Dead(0), Dead(c) to Dead(c+1) or Removed, Removed to Alive(0) as the new
\* slot of a split; and between the assignments no behavior changes.
C2_Edges ==
    /\ \A a \in last.assigns : Edge(a[1], a[2], a[3])
    /\ \A i \in DOMAIN behaviors :
          \/ \E a \in last.assigns : a[1] = i /\ a[3] = behaviors[i]
          \/ /\ i \in DOMAIN last.behaviors
             /\ behaviors[i] = last.behaviors[i]
             /\ \A a \in last.assigns : a[1] # i

\* C2 witness: a chaser has absorbed a whole Alive worm, whose slot went
\* from Alive to Removed
C2_Witness ==
    /\ last.op = "chasing"
    /\ \E a \in last.assigns : a[2].tag = "Alive" /\ a[3] = Removed

\* C3 (as claimed): a Chasing worm's turn makes exactly one movement
\* attempt, and when that attempt is a TargetMiss the worm stays Chasing
\* with its body rolled exactly once.
C3_OneAttempt ==
    last.op = "chasing" =>
        /\ Len(last.attempts) = 1
        /\ last.attempts[1].result.kind = "TargetMiss" =>
              /\ behaviors[last.id] = Chasing
              /\ After.size = Before.size
              /\ IterSeq(After) = Rolled(IterSeq(Before), last.attempts[1].result.head)

\* C3 (amended): a Chasing worm's turn makes one movement attempt, and a
\* second one exactly when the first was a TargetMiss.  Every TargetMiss
\* rolls the body once, one step ahead and at the same size, so a worm that
\* is still Chasing after its turn has missed twice and been rolled twice.
C3_ChasingAttempts ==
    last.op = "chasing" =>
        LET a == last.attempts
            first == a[1].result
        IN  /\ Len(a) \in {1, 2}
            /\ (Len(a) = 2) <=> (first.kind = "TargetMiss")
            /\ (behaviors[last.id] = Chasing) <=>
                   (Len(a) = 2 /\ a[2].result.kind = "TargetMiss")
            /\ first.kind = "TargetMiss" => first.head \in Steps(BodyHead(Before))
            /\ behaviors[last.id] = Chasing =>
                  /\ a[2].result.head \in Steps(first.head)
                  /\ After.size = Before.size
                  /\ IterSeq(After) =
                         Rolled(Rolled(IterSeq(Before), first.head), a[2].result.head)
                  /\ After.target = a[2].result.destination

\* C3 witness: a Chasing worm has missed twice in one turn
C3_Witness ==
    /\ last.op = "chasing"
    /\ Len(last.attempts) = 2
    /\ last.attempts[2].result.kind = "TargetMiss"
    /\ behaviors[last.id] = Chasing

\* C4 (as claimed): an Alive worm whose turn ends with the switch to Chasing
\* has the body it had before the turn.
C4_ChasingKeepsBody ==
    (last.op = "alive" /\ behaviors[last.id] = Chasing) => After = Before

\* C4 (amended): an Alive worm whose turn ends with the switch to Chasing
\* has been rolled in that turn: its head is the accepted candidate, one step
\* from the old head, the old segments but the last follow it, the size is
\* the same and the remembered target is the movement's destination.
C4_RolledBeforeChasing ==
    (last.op = "alive" /\ behaviors[last.id] = Chasing) =>
        LET miss == last.attempts[1].result
        IN  /\ miss.kind = "TargetMiss"
            /\ miss.head \in Steps(BodyHead(Before))
            /\ BodyHead(After) = miss.head
            /\ After.size = Before.size
            /\ IterSeq(After) = Rolled(IterSeq(Before), miss.head)
            /\ After.target = miss.destination

\* C4 witness: an Alive worm of more than one segment has switched to Chasing
C4_Witness ==
    /\ last.op = "alive"
    /\ behaviors[last.id] = Chasing
    /\ Before.size > 1

\* C5 (as claimed): an Alive or Chasing worm whose turn ends in Dead(0) has
\* the segments, size and remembered target it had at the start of the turn.
C5_DeadKeepsBody ==
    (MoverTurn /\ behaviors[last.id] = Dead(0)) => After = Before

\* C5 (amended): the turn of an Alive or Chasing worm ends in Dead(0) exactly
\* when its last movement was None.  The body is then the one of the start of
\* the turn, except for a Chasing worm that missed first: that one has been
\* rolled once, by its first movement.
C5_DeadBody ==
    MoverTurn =>
        LET a == last.attempts
        IN  /\ (behaviors[last.id] = Dead(0)) <=> (a[Len(a)].result.kind = "None")
            /\ (behaviors[last.id] = Dead(0) /\ Len(a) = 1) => After = Before
            /\ (behaviors[last.id] = Dead(0) /\ Len(a) = 2) =>
                  /\ last.op = "chasing"
                  /\ a[1].result.kind = "TargetMiss"
                  /\ After.size = Before.size
                  /\ IterSeq(After) = Rolled(IterSeq(Before), a[1].result.head)
                  /\ After.target = a[1].result.destination

\* C5 witness: a Chasing worm has missed and then died in one turn
C5_Witness ==
    /\ last.op = "chasing"
    /\ Len(last.attempts) = 2
    /\ behaviors[last.id] = Dead(0)

\* C6: an Alive(c) worm that is not full and misses becomes Alive(c+1) if
\* c < floor(starvation / s), s being its size, and Chasing otherwise; its
\* head has advanced one step and its size is the same.  With starvation 0
\* it becomes Chasing on its first miss.
C6_StarvationTest ==
    (last.op = "alive" /\ last.attempts[1].result.kind = "TargetMiss") =>
        LET c == last.behaviors[last.id].counter
            s == After.size
        IN  /\ ~ Full(Before)
            /\ s = Before.size
            /\ BodyHead(After) \in Steps(BodyHead(Before))
            /\ behaviors[last.id] =
                   (IF c < params.starvation \div s THEN Alive(c + 1) ELSE Chasing)
            /\ params.starvation = 0 => behaviors[last.id] = Chasing

\* C6 witness: a worm of two segments, fed once, has missed under a
\* starvation of 1 and gone Chasing where a single segment would have stayed
\* Alive
C6_Witness ==
    /\ last.op = "alive"
    /\ last.attempts[1].result.kind = "TargetMiss"
    /\ params.starvation = 1
    /\ After.size = 2
    /\ last.behaviors[last.id] = Alive(0)
    /\ behaviors[last.id] = Chasing

\* C7: an Alive worm whose movement is TargetHit(j, h) becomes Alive(0), one
\* segment longer, h its head and its old segments in order behind it;
\* reward j is drawn anew and no other reward changes.
C7_HitGrows ==
    (last.op = "alive" /\ last.attempts[1].result.kind = "TargetHit") =>
        LET hit == last.attempts[1].result
        IN  /\ behaviors[last.id] = Alive(0)
            /\ After.size = Before.size + 1
            /\ IterSeq(After) = <<hit.head>> \o IterSeq(Before)
            /\ hit.id \in DOMAIN last.rewards
            /\ rewards[hit.id] \in RandPoints(width, height)
            /\ \A j \in DOMAIN rewards : j # hit.id => rewards[j] = last.rewards[j]

\* C7 witness: a worm has eaten at a counter above 0
C7_Witness ==
    /\ last.op = "alive"
    /\ last.attempts[1].result.kind = "TargetHit"
    /\ last.behaviors[last.id].counter > 0

\* C8: a Dead(c) worm at its turn becomes Dead(c+1) if c < expiration, its
\* body untouched, and Removed with size 0 otherwise.  So a worm that died in
\* tick t shows Dead(k) once the turn of tick t+k is over, for k up to
\* expiration, and is removed in its turn of tick t+expiration+1: no Dead
\* counter passes expiration.
C8_DeadCountdown ==
    /\ last.op = "dead" =>
          LET c == last.behaviors[last.id].counter
          IN  IF c < params.expiration
              THEN behaviors[last.id] = Dead(c + 1) /\ After = Before
              ELSE /\ behaviors[last.id] = Removed
                   /\ After.size = 0
                   /\ tick = last.died[last.id] + params.expiration + 1
    /\ \A i \in DOMAIN behaviors :
          behaviors[i].tag = "Dead" =>
              /\ behaviors[i].counter <= params.expiration
              /\ behaviors[i].counter =
                     tick - died[i] - (IF worm_id <= i /\ tick > died[i] THEN 1 ELSE 0)

\* C8 witness: a worm has been removed after counting a tick as Dead
C8_Witness ==
    /\ last.op = "dead"
    /\ behaviors[last.id] = Removed
    /\ params.expiration > 0

\* the slots a split has made Alive(0): created or reused
Made == {a[1] : a \in {b \in last.assigns : b[1] # last.id}}

\* the sum of the sizes of the bodies of a set of slots
RECURSIVE SumSizes(_)
SumSizes(slots) ==
    IF slots = {} THEN 0
    ELSE LET j == CHOOSE k \in slots : TRUE
         IN  bodies[j].size + SumSizes(slots \ {j})

\* the full body has been divided: the donor is below capacity and another
\* slot has become Alive(0) with segments that were the donor's
Divided ==
    /\ After.size < MAX_SIZE
    /\ \E j \in Made :
          /\ behaviors[j] = Alive(0)
          /\ bodies[j].size > 0
          /\ \A k \in 1..bodies[j].size :
                \E n \in 1..Before.size : IterSeq(bodies[j])[k] = IterSeq(Before)[n]

\* C9 (as claimed): whenever the turn of an Alive worm comes with its body
\* at capacity, the body is divided in that turn, for every spawn size from
\* 1 to MAX_SIZE.
C9_FullBodyDivided == last.op = "split" => Divided

\* C9 (amended): the body at capacity is divided in that turn when two spawn
\* sizes fit in it, 2 * worm_size <= MAX_SIZE.  With a larger spawn size the
\* turn changes no body and makes no slot: the worm stays full, as Alive(0).
C9_SplitWhenTwoFit ==
    last.op = "split" =>
        /\ Before.size = MAX_SIZE
        /\ behaviors[last.id] = Alive(0)
        /\ IF params.worm_size * 2 <= MAX_SIZE
           THEN Divided
           ELSE bodies = last.bodies /\ Made = {} /\ Full(After)

\* C9 witness: a full worm whose spawn size is half the capacity has been split
C9_Witness ==
    /\ last.op = "split"
    /\ params.worm_size * 2 = MAX_SIZE
    /\ Made # {}
    /\ After.size = params.worm_size

\* C10: after split_worm every slot it created or reused holds exactly
\* worm_size segments, the donor holds at least worm_size and fewer than
\* 2 * worm_size, and the donor and the slots made hold together as many
\* segments as the donor held before.
C10_SplitSizes ==
    last.op = "split" =>
        /\ \A j \in Made :
              /\ bodies[j].size = params.worm_size
              /\ j \in DOMAIN last.behaviors => last.behaviors[j] = Removed
        /\ After.size >= params.worm_size
        /\ After.size < 2 * params.worm_size
        /\ After.size + SumSizes(Made) = Before.size
        /\ \A j \in DOMAIN last.bodies : j \notin Made /\ j # last.id =>
              bodies[j] = last.bodies[j]

\* C10 witness: a split has made several slots, one reused and one created
C10_Witness ==
    /\ last.op = "split"
    /\ params.worm_size > 1
    /\ \E j \in Made : j \in DOMAIN last.behaviors
    /\ \E j \in Made : j \notin DOMAIN last.behaviors

\* the segments n-th to m-th of a body, head to tail
Segments(b, n, m) == SubSeq(IterSeq(b), n, m)

\* C11 (as claimed): each split step copies the donor's foremost worm_size
\* segments into the slot it makes, in order, and the donor keeps the
\* segments behind them: the k-th slot made holds the k-th block of
\* worm_size segments counted from the donor's head, the donor the rest.
C11_SplitTakesHead ==
    last.op = "split" /\ Made # {} =>
        LET w == params.worm_size
            n == Cardinality(Made)
        IN  /\ \A j \in Made : \E k \in 1..n :
                  IterSeq(bodies[j]) = Segments(Before, (k - 1) * w + 1, k * w)
            /\ IterSeq(After) = Segments(Before, n * w + 1, Before.size)

\* C11 (amended): each split step copies the donor's rearmost worm_size
\* segments into the slot it makes, in the donor's head-to-tail order, and
\* the donor keeps its foremost segments: the k-th slot made holds the k-th
\* block of worm_size segments counted from the donor's tail, a different
\* block for each slot, and the donor keeps its head and the segments that
\* follow it, as many as its reduced size.
C11_SplitTakesTail ==
    last.op = "split" =>
        LET w == params.worm_size
            n == Cardinality(Made)
            Block(k) == Segments(Before, Before.size - k * w + 1, Before.size - (k - 1) * w)
        IN  /\ \A j \in Made : \E k \in 1..n : IterSeq(bodies[j]) = Block(k)
            /\ \A i, j \in Made : i # j => IterSeq(bodies[i]) # IterSeq(bodies[j])
            /\ After.size = Before.size - n * w
            /\ IterSeq(After) = Segments(Before, 1, After.size)
            /\ BodyHead(After) = BodyHead(Before)

\* C11 witness: a split in several steps has left the donor with more than
\* one segment and made slots of more than one segment
C11_Witness ==
    /\ last.op = "split"
    /\ Cardinality(Made) > 1
    /\ params.worm_size > 1
    /\ After.size > params.worm_size

\* the slots that were Removed when the turn just taken started
WasRemoved == {i \in DOMAIN last.behaviors : last.behaviors[i] = Removed}

\* the slots a split has appended, and the existing ones it has reused
Appended == Made \ DOMAIN last.behaviors

Reused == Made \cap DOMAIN last.behaviors

\* C12: a split appends a slot only when no slot is Removed at that moment.
\* Every slot it reuses was Removed, it appends only after every Removed
\* slot has been reused, and the number of slots grows by the number of
\* slots appended: not at all while Removed slots last.
C12_ReuseBeforeAppend ==
    last.op = "split" =>
        /\ Reused \subseteq WasRemoved
        /\ Appended # {} => WasRemoved \subseteq Reused
        /\ Cardinality(Reused) = Min(Cardinality(Made), Cardinality(WasRemoved))
        /\ Appended = {i \in DOMAIN behaviors : i >= Len0(last.behaviors)}
        /\ Len0(behaviors) = Len0(last.behaviors) + Cardinality(Appended)
        /\ DOMAIN bodies = DOMAIN behaviors

\* C12 witness: a split of one step, with two Removed slots to choose from,
\* has reused one of them and appended nothing
C12_Witness ==
    /\ last.op = "split"
    /\ Cardinality(WasRemoved) = 2
    /\ Cardinality(Reused) = 1
    /\ Len0(behaviors) = Len0(last.behaviors)

\* the turn just taken was a Chasing worm's and ended in a merge
Merged ==
    /\ last.op = "chasing"
    /\ last.attempts[Len(last.attempts)].result.kind = "TargetHit"

\* the slot the merge took segments from
MergeTarget == last.attempts[Len(last.attempts)].result.id

\* C13: a merge of a chaser of c >= 1 segments into a target of t >= 1
\* moves exactly k = min(t, MAX_SIZE - (c - 1)) segments: the chaser ends
\* with c - 1 + k <= MAX_SIZE segments and the target with t - k, c + t - 1
\* together, whether or not the target is absorbed whole.
C13_MergeSizes ==
    Merged =>
        LET c == Before.size
            t == last.bodies[MergeTarget].size
            k == Min(t, MAX_SIZE - (c - 1))
        IN  /\ c >= 1
            /\ t >= 1
            /\ MergeTarget # last.id
            /\ After.size = c - 1 + k
            /\ After.size <= MAX_SIZE
            /\ bodies[MergeTarget].size = t - k
            /\ After.size + bodies[MergeTarget].size = c + t - 1

\* C13 witness: a merge has filled the chaser and left segments in the target
C13_Witness ==
    /\ Merged
    /\ After.size = MAX_SIZE
    /\ Before.size < MAX_SIZE
    /\ bodies[MergeTarget].size > 1

\* C14: after a Chasing worm's TargetHit the chaser is Alive(0).  The target
\* is Removed exactly when the merge left it no segment; otherwise it has
\* the behavior it had, Alive with the same counter, and fewer segments than
\* before but at least one.
C14_MergeBehaviors ==
    Merged =>
        /\ behaviors[last.id] = Alive(0)
        /\ last.behaviors[MergeTarget].tag = "Alive"
        /\ behaviors[MergeTarget] = Removed <=> bodies[MergeTarget].size = 0
        /\ bodies[MergeTarget].size > 0 =>
              /\ behaviors[MergeTarget] = last.behaviors[MergeTarget]
              /\ bodies[MergeTarget].size < last.bodies[MergeTarget].size
        /\ \A i \in DOMAIN behaviors : i \notin {last.id, MergeTarget} =>
              behaviors[i] = last.behaviors[i]

\* C14 witness: a target with a counter above 0 has lost some of its
\* segments to a chaser and kept its counter
C14_Witness ==
    /\ Merged
    /\ last.behaviors[MergeTarget].counter > 0
    /\ bodies[MergeTarget].size > 0
    /\ behaviors[MergeTarget] = last.behaviors[MergeTarget]

\* the sizes of the bodies whose head() or tail() the turn just taken has
\* read.  The second attempt of a Chasing turn follows a roll, which changes
\* no size and no behavior, so it reads bodies of the same sizes as the first.
ReadSizes ==
    IF last.op = "alive" THEN DetailsReads(last.bodies, last.id)
    ELSE IF last.op \in {"chasing", "panic"}
    THEN DetailsReads(last.bodies, last.id)
         \cup ScanReads(last.bodies, last.behaviors)
         \cup (IF Merged THEN MergeReads(last.bodies, last.id, MergeTarget) ELSE {})
    ELSE {}

\* C15 (as claimed): in no turn does Scene read head() or tail() of a body
\* of size 0: not in get_movement_details, not in the chasing target scan,
\* not in merge_worms after the chaser's shrink(1).
C15_NoEmptyRead == \A size \in ReadSizes : size > 0

\* where C15 fails: a chaser of one segment has merged, and merge_worms has
\* read the head() of its body emptied by shrink(1)
C15_EmptyReadInMerge ==
    /\ Merged
    /\ Before.size = 1
    /\ 0 \in MergeReads(last.bodies, last.id, MergeTarget)
    /\ 0 \notin DetailsReads(last.bodies, last.id) \cup ScanReads(last.bodies, last.behaviors)

\* the body a slot made by the split just taken held when the split started
SlotBefore(j) == IF j \in DOMAIN last.bodies THEN last.bodies[j] ELSE DefaultBody

\* the sizes bodies had at the calls of grow of the turn just taken: the
\* eater's at a reward hit, the chaser's through a merge, and through a
\* split those of the slots made
GrowCalls ==
    IF last.op = "alive" /\ last.attempts[1].result.kind = "TargetHit"
    THEN {Before.size}
    ELSE IF Merged THEN MergeGrows(last.bodies, last.id, MergeTarget)
    ELSE IF last.op = "split"
    THEN UNION {GrowSizes(SlotBefore(j), RevSeq(Before), params.worm_size) : j \in Made}
    ELSE {}

\* the segments the turn just taken has added, counted without a cap
Grown == Cardinality(GrowCalls)

\* C16: Scene never calls grow on a body that is already full, so every
\* body has at most MAX_SIZE segments and a start below MAX_SIZE without the
\* cap of grow ever acting: each call of grow adds a segment.
C16_NoGrowWhenFull ==
    /\ \A size \in GrowCalls : size < MAX_SIZE
    /\ \A i \in DOMAIN bodies :
          /\ bodies[i].size \in 0..MAX_SIZE
          /\ bodies[i].start \in 0..(MAX_SIZE - 1)
    /\ last.op = "alive" => After.size = Before.size + Grown
    /\ Merged => After.size = Before.size - 1 + Grown
    /\ last.op = "split" => \A j \in Made : SlotBefore(j).size = 0

\* C16 witness: a worm one segment short of capacity has eaten and is full
C16_Witness ==
    /\ last.op = "alive"
    /\ last.attempts[1].result.kind = "TargetHit"
    /\ Before.size = MAX_SIZE - 1
    /\ After.size = MAX_SIZE

\* the candidate heads execute_movement accepted in the turn just taken
Accepted == {last.attempts[n].valid[1] :
                n \in {k \in 1..Len(last.attempts) : last.attempts[k].valid # <<>>}}

\* a point lies within the world, as far as the model can tell:
\* 0 <= x <= width and 0 <= y <= height
InWorld(p) ==
    /\ May(Geq(p[1], 0, p[3])) /\ May(Leq(p[1], width * Scale, p[3]))
    /\ May(Geq(p[2], 0, p[4])) /\ May(Leq(p[2], height * Scale, p[4]))

\* C17 (as claimed): every candidate head execute_movement accepts lies
\* within the world, 0 <= x <= width and 0 <= y <= height, and so does the
\* head a roll or a grow of a mover's turn commits.
C17_HeadsInWorld ==
    MoverTurn =>
        /\ \A p \in Accepted : InWorld(p)
        /\ (BodyHead(After) \in Accepted) => InWorld(BodyHead(After))

\* where C17 fails: a worm has rolled onto an accepted head that lies below
\* the world's lower bound by more than any rounding, within its upper bounds
C17_HeadBelowZero ==
    /\ MoverTurn
    /\ BodyHead(After) \in Accepted
    /\ BodyHead(After)[2] < - Tolerance
    /\ Must(Leq(BodyHead(After)[1], width * Scale, BodyHead(After)[3]))
    /\ Must(Leq(BodyHead(After)[2], height * Scale, BodyHead(After)[4]))

\* the arm of update_worms a slot's behavior and body select
ArmOf(behavior, body) ==
    IF behavior.tag = "Alive" THEN (IF Full(body) THEN {"split"} ELSE {"alive"})
    ELSE IF behavior.tag = "Dead" THEN {"dead"}
    ELSE IF behavior.tag = "Chasing" THEN {"chasing", "panic"}
    ELSE {"removed"}

\* a step is the turn of slot worm_id: the arm is the one its behavior and
\* body select as the earlier turns of the tick have left them, the scene
\* the turn has worked on is the current one (the slots before it as their
\* turns left them, the slots after it as they are before theirs), the next
\* slot is next, the range of the loop stays, and no reward but an eaten one
\* changes
TurnStep ==
    /\ worm_id < n_slots
    /\ last'.id = worm_id
    /\ last'.op \in ArmOf(behaviors[worm_id], bodies[worm_id])
    /\ last'.bodies = bodies /\ last'.behaviors = behaviors /\ last'.rewards = rewards
    /\ n_slots' = n_slots /\ tick' = tick
    /\ IF last'.op = "panic"
       THEN panicked' /\ worm_id' = worm_id /\ bodies' = bodies /\ behaviors' = behaviors
       ELSE worm_id' = worm_id + 1
    /\ reward_destination' = reward_destination
    /\ \A j \in DOMAIN rewards :
          rewards'[j] # rewards[j] =>
              /\ last'.op = "alive"
              /\ last'.attempts[1].result.kind = "TargetHit"
              /\ last'.attempts[1].result.id = j
    /\ DOMAIN rewards' = DOMAIN rewards

\* the first movement of the turn just taken is one execute_movement
\* returns on the scene the turn has worked on
TurnScan ==
    last.op \in {"alive", "chasing"} =>
        last.attempts[1] \in
            Movements(IF last.op = "alive" THEN "Alive" ELSE "Chasing",
                      last.bodies, last.behaviors, last.rewards, last.id,
                      params, width, height)

\* a step is update_rewards: every slot of the range has had its turn, no
\* body or behavior changes, and the next tick ranges over the slots there are
RewardsStep ==
    /\ worm_id = n_slots
    /\ last'.op = "rewards"
    /\ bodies' = bodies /\ behaviors' = behaviors
    /\ worm_id' = 0
    /\ n_slots' = Len0(behaviors)
    /\ tick' = tick + 1

\* a step is Scene::resize, between two execute(): no slot has had a turn of
\* the coming execute(), and nothing but the size of the world changes
ResizeStep ==
    /\ worm_id = 0
    /\ last'.op = "resize"
    /\ UNCHANGED <<params, behaviors, bodies, rewards, reward_destination,
                   worm_id, n_slots, tick, panicked, died>>

\* C18: within one execute() the slots that exist when it starts have their
\* turns one after the other in ascending order, once each; a turn works on
\* the scene the turn before it has left, so the scan of slot j sees the
\* slots below j after their turns and the slots above j before theirs; the
\* rewards wander only after the turn of the last slot. The world is
\* resized only between two execute().
C18_TurnOrder == []TurnScan /\ [][TurnStep \/ RewardsStep \/ ResizeStep]_vars

\* C18 witness: in the first tick slot 1 has had its turn as a mover after
\* slot 0 had rolled, and the rewards have not wandered yet
C18_Witness ==
    /\ tick = 0
    /\ worm_id = n_slots
    /\ last.id = 1
    /\ MoverTurn
    /\ last.bodies[0].start # last.bodies[0].size - 1
    /\ bodies[0] = last.bodies[0]
    /\ DOMAIN rewards # {}

\* C19: for every size from 1 to MAX_SIZE, WormBody::new(size, head,
\* direction, spacing) is a body of exactly size live segments; the first is
\* head, the k-th (k = 0 .. size - 1, head to tail) is head moved k times
\* 2 * spacing along direction; its remembered target is head.
C19_NewBody ==
    last.op = "new" =>
        LET c == last.call
            b == bodies[0]
            step == DirectionVector(c.direction, 2 * c.part_size)
        IN  /\ c.size \in 1..MAX_SIZE
            /\ b.size = c.size
            /\ Len(IterSeq(b)) = c.size
            /\ BodyHead(b) = c.head
            /\ \A k \in 0..(c.size - 1) :
                  /\ IterSeq(b)[k + 1][1] = c.head[1] + k * step[1]
                  /\ IterSeq(b)[k + 1][2] = c.head[2] + k * step[2]
            /\ BodyTail(b) = IterSeq(b)[c.size]
            /\ b.target = c.head

\* C19 witness: a body of MAX_SIZE segments has been built along a direction
\* that is not an axis
C19_Witness ==
    /\ last.op = "new"
    /\ last.call.size = MAX_SIZE
    /\ last.call.direction = 3
    /\ BodyTail(bodies[0])[1] # BodyHead(bodies[0])[1]
    /\ BodyTail(bodies[0])[2] # BodyHead(bodies[0])[2]

\* C20: whatever the body and the calls made before, roll leaves size as it
\* is; grow adds exactly 1 to a size below MAX_SIZE and leaves a full body
\* at MAX_SIZE; so size never exceeds MAX_SIZE.
C20_RollGrowSizes ==
    /\ last.op = "roll" => After.size = Before.size
    /\ last.op = "grow" =>
          After.size = (IF Before.size < MAX_SIZE THEN Before.size + 1 ELSE MAX_SIZE)
    /\ last.op \in {"roll", "grow"} =>
          /\ After.start = (Before.start + 1) % MAX_SIZE
          /\ BodyHead(After) = last.call.part
    /\ bodies[0].size <= MAX_SIZE

\* C20 witness: a full body whose start had wrapped to 0 has been grown and
\* is still full
C20_Witness ==
    /\ last.op = "grow"
    /\ Before.size = MAX_SIZE
    /\ Before.start = 0
    /\ After.size = MAX_SIZE

\* a grow has been followed by shrink(1); the body before the two calls
GrowThenShrink == last.op = "shrink" /\ last.prev.op = "grow"

BeforeBoth == last.prev.body

\* C21 (as claimed): for every body of 1 to MAX_SIZE segments, MAX_SIZE
\* included, grow(p) followed by shrink(1) restores the size and the head
\* the body had before the grow.
C21_GrowShrinkRestores ==
    (GrowThenShrink /\ BeforeBoth.size \in 1..MAX_SIZE) =>
        /\ After.size = BeforeBoth.size
        /\ BodyHead(After) = BodyHead(BeforeBoth)

\* C21 (amended): for every body of 1 to MAX_SIZE - 1 segments, grow(p)
\* followed by shrink(1) restores the size and the head, and with them the
\* whole head-to-tail sequence.  On a full body it restores the head but not
\* the size: grow leaves the size at MAX_SIZE and overwrites the tail, and
\* shrink(1) leaves MAX_SIZE - 1 segments, the body without its former tail.
C21_GrowShrinkBelowFull ==
    (GrowThenShrink /\ BeforeBoth.size \in 1..MAX_SIZE) =>
        /\ BodyHead(After) = BodyHead(BeforeBoth)
        /\ After.start = BeforeBoth.start
        /\ IF BeforeBoth.size < MAX_SIZE
           THEN /\ After.size = BeforeBoth.size
                /\ IterSeq(After) = IterSeq(BeforeBoth)
           ELSE /\ After.size = MAX_SIZE - 1
                /\ IterSeq(After) = SubSeq(IterSeq(BeforeBoth), 1, MAX_SIZE - 1)

\* C21 witness: a full body has been grown and shrunk by 1
C21_Witness ==
    /\ GrowThenShrink
    /\ BeforeBoth.size = MAX_SIZE
    /\ last.prev.call.part # BodyHead(BeforeBoth)

\* C22: in every state a body reaches through new, roll, grow, shrink and
\* set_size, the ring index wrapped or not, iter() yields exactly size
\* segments, the first head() and the last tail(), and iter().rev() yields
\* the same segments in the opposite order.
C22_IterBothWays ==
    LET b == bodies[0]
    IN  /\ b.size \in 0..MAX_SIZE
        /\ Len(IterSeq(b)) = b.size
        /\ Len(RevSeq(b)) = b.size
        /\ b.size >= 1 =>
              /\ IterSeq(b)[1] = BodyHead(b)
              /\ IterSeq(b)[b.size] = BodyTail(b)
        /\ \A c \in 1..b.size : RevSeq(b)[c] = IterSeq(b)[b.size + 1 - c]

\* C22 witness: a roll has carried the head past the end of the array, so
\* the live segments lie on both sides of the wrap, head and tail apart
C22_Witness ==
    /\ last.op = "roll"
    /\ After.start = 0
    /\ After.size >= 2
    /\ After.size < MAX_SIZE
    /\ BodyTail(After) # BodyHead(After)

\* the offset from the seed of the i-th direction a Rotator has yielded
Offset(i) == last.yielded[i][1] - last.rotator.direction

\* the offset the i-th call is to give: 0, then -1, +1, -2, +2, .. for one
\* handedness and +1, -1, +2, -2, .. for the other
Turn(i, rotation) ==
    LET k == i \div 2
        first == IF rotation = "Clockwise" THEN -k ELSE k
    IN  IF i % 2 = 0 THEN first ELSE -first

\* C23: for either handedness and any seed d a Rotator yields exactly
\* N_DIRECTIONS directions and None at every call after them; the first is
\* d, the next ones d-1, d+1, d-2, d+2, .. (signs swapped for the other
\* handedness), never closer to d than the one before, the last the opposite
\* of d, and the values are pairwise distinct modulo N_DIRECTIONS.
C23_RotatorOrder ==
    last.op = "next" =>
        LET n == Len(last.yielded)
            some == 1..Min(n, N_DIRECTIONS)
        IN  /\ \A i \in 1..n : (last.yielded[i] = <<>>) <=> (i > N_DIRECTIONS)
            /\ last.rotator.times = Min(n, N_DIRECTIONS)
            /\ Offset(1) = 0
            /\ \A i \in some : Offset(i) = Turn(i, last.rotator.rotation)
            /\ \A i \in some : i > 1 => Abs(Offset(i)) >= Abs(Offset(i - 1))
            /\ n >= N_DIRECTIONS =>
                  (Offset(N_DIRECTIONS) - N_DIRECTIONS \div 2) % N_DIRECTIONS = 0
            /\ \A i, j \in some :
                  i # j => (last.yielded[i][1] - last.yielded[j][1]) % N_DIRECTIONS # 0

\* C23 witness: a Rotator of the second handedness, seeded below 0, has
\* yielded its directions and then None twice
C23_Witness ==
    /\ last.op = "next"
    /\ last.rotator.rotation = "CounterClockwise"
    /\ last.rotator.direction < 0
    /\ Len(last.yielded) = N_DIRECTIONS + 2
    /\ last.yielded[N_DIRECTIONS] # <<>>
    /\ last.yielded[N_DIRECTIONS + 1] = <<>>
    /\ last.yielded[N_DIRECTIONS + 2] = <<>>

\* the rewards whose position the step just taken has changed
Replaced == {j \in DOMAIN rewards : rewards[j] # last.rewards[j]}

\* C24: the rewards and the wander destinations are as many after every
\* step as before it.  In a worm's turn a reward changes place only when an
\* Alive worm hits it: of a TargetHit(j, _) only reward j is replaced, and
\* the turn of a Chasing worm, like a split, a Dead or a Removed turn,
\* changes no reward.
C24_RewardsFrame ==
    /\ DOMAIN rewards = DOMAIN last.rewards
    /\ DOMAIN reward_destination = DOMAIN rewards
    /\ last.op \in {"alive", "chasing", "split", "dead", "removed", "panic"} =>
          /\ Replaced # {} =>
                /\ last.op = "alive"
                /\ last.attempts[1].result.kind = "TargetHit"
                /\ Replaced = {last.attempts[1].result.id}
          /\ last.op # "alive" => rewards = last.rewards

\* C24 witness: of two rewards an Alive worm has hit the second, which has
\* been drawn anew elsewhere, and the first is where it was
C24_Witness ==
    /\ last.op = "alive"
    /\ last.attempts[1].result.kind = "TargetHit"
    /\ Len0(rewards) = 2
    /\ Replaced = {1}

\* a step of a scene without worm slots: it is update_rewards ending an
\* execute(), it makes no slot and no panic, and it changes nothing but the
\* places of the rewards, each moved towards its destination or drawn anew
EmptyStep ==
    /\ Len0(behaviors') = 0 /\ Len0(bodies') = 0
    /\ ~ panicked'
    /\ last'.op = "rewards"
    /\ tick' = tick + 1
    /\ UNCHANGED <<width, height, params, behaviors, bodies, reward_destination,
                   worm_id, n_slots, died>>
    /\ DOMAIN rewards' = DOMAIN rewards
    /\ \A j \in DOMAIN rewards :
          \E n \in NewReward(rewards[j], reward_destination[j], params, width, height) :
              IF n.is_valid THEN rewards'[j] = n.point
              ELSE rewards'[j] \in RandPoints(width, height)

\* C25: in a scene built without worms, with any number of rewards, every
\* execute() leaves the set of slots empty, changes nothing but the places
\* of the rewards and does not panic. (A step that is not an execute() is
\* a Scene::resize.)
C25_EmptyScene == [][(Len0(behaviors) = 0 /\ last'.op # "resize") => EmptyStep]_vars

\* C25 witness: a scene without worms and with two rewards has been run to
\* the last tick, the rewards moving
C25_Witness ==
    /\ Len0(behaviors) = 0
    /\ Len0(rewards) = 2
    /\ tick = MaxTicks
    /\ ~ panicked
    /\ rewards # last.rewards

\* the movements execute_movement returned in the turn just taken
Attempts == {last.attempts[n] : n \in 1..Len(last.attempts)}

\* whether the accepted head of a movement is less than a step from its
\* destination
Reaches(a) == DistLess(a.destination, a.valid[1], StepDistance(params))

\* C26: execute_movement returns TargetHit(id, h) exactly when a candidate
\* head was accepted, select_target identified a target and the accepted
\* head is less than a step from the destination; id is then the target
\* select_target chose and h the accepted head.  Without a target the
\* result is never TargetHit.
C26_HitExactly ==
    MoverTurn =>
        \A a \in Attempts :
            /\ a.result.kind = "TargetHit" =>
                  (a.valid # <<>> /\ a.target_id # <<>> /\ May(Reaches(a)))
            /\ (a.valid # <<>> /\ a.target_id # <<>> /\ Must(Reaches(a))) =>
                  a.result.kind = "TargetHit"
            /\ a.result.kind = "TargetHit" =>
                  /\ a.result.id = a.target_id[1]
                  /\ a.result.head = a.valid[1]
            /\ a.target_id = <<>> => a.result.kind # "TargetHit"

\* C26 witness: a Chasing worm with a target too far for its first step has
\* missed, and has hit the same target with its second
C26_Witness ==
    /\ last.op = "chasing"
    /\ Len(last.attempts) = 2
    /\ last.attempts[1].target_id # <<>>
    /\ last.attempts[1].result.kind = "TargetMiss"
    /\ last.attempts[2].result.kind = "TargetHit"
    /\ last.attempts[2].target_id = last.attempts[1].target_id

\* the candidates of the select_target call just made: the rewards for an
\* Alive mover, the Alive slots for a Chasing one
Candidates ==
    IF last.kind = "Alive" THEN DOMAIN rewards
    ELSE {i \in DOMAIN bodies : behaviors[i].tag = "Alive"}

\* where candidate j is: the reward, or the tail of the slot
CandidateAt(j) == IF last.kind = "Alive" THEN rewards[j] ELSE BodyTail(bodies[j])

\* whether candidate j is inside the vision cone and closer than the vision
\* distance
Sees(j) ==
    UNION { AndB(Connect(direction, last.details.origin, CandidateAt(j)),
                 DistLess(last.details.origin, CandidateAt(j), VisionDistance * Scale))
            : direction \in DirectionTo(last.details.origin,
                                        last.details.chosen_destination) }

\* the candidates in range whatever the roundings, and those that may be
InSight == {j \in Candidates : Must(Sees(j))}

MaybeInSight == {j \in Candidates : May(Sees(j))}

\* candidate j is closer to the head than candidate k, as far from it, or
\* farther
Nearer(j, k) == DistOrder(last.details.origin, CandidateAt(j), CandidateAt(k))

\* C27: with a candidate in range, select_target returns the candidate at
\* the least distance from the head, the lowest index among those at that
\* distance; with none in range it returns no target id, with the remembered
\* destination if that is farther than the vision distance from the head
\* and a point within the world bounds otherwise.
C27_SelectTarget ==
    last.op = "select_target" =>
        LET far == DistMore(last.details.origin, last.details.chosen_destination,
                            VisionDistance * Scale)
        IN  /\ InSight # {} => last.selected.target_id # <<>>
            /\ MaybeInSight = {} => last.selected.target_id = <<>>
            /\ last.selected.target_id # <<>> =>
                  LET c == last.selected.target_id[1]
                  IN  /\ c \in MaybeInSight
                      /\ last.selected.destination = CandidateAt(c)
                      /\ \A k \in InSight \ {c} :
                            /\ Nearer(k, c) # {"less"}
                            /\ (Nearer(k, c) = {"equal"} => c < k)
            /\ last.selected.target_id = <<>> =>
                  \/ /\ May(far)
                     /\ last.selected.destination = last.details.chosen_destination
                  \/ /\ ~ Must(far)
                     /\ Exact(last.selected.destination)
                     /\ last.selected.destination[1] \in 0..(width * Scale)
                     /\ last.selected.destination[2] \in 0..(height * Scale)

\* C27 witness: two candidates in range at the same distance, at different
\* points, and the one of lower index is returned
C27_Witness ==
    /\ last.op = "select_target"
    /\ \E j \in InSight, k \in InSight :
          /\ j < k
          /\ CandidateAt(j) # CandidateAt(k)
          /\ Nearer(j, k) = {"equal"}
          /\ last.selected.target_id = <<j>>

\* C28: the target id a Chasing worm selects is never its own slot and is a
\* slot that is Alive when it is selected; so merge_worms is called only with
\* a target other than the chaser, Alive and of at least one segment.
C28_TargetAliveOther ==
    last.op = "chasing" =>
        /\ \A a \in Attempts :
              a.target_id # <<>> =>
                  /\ a.target_id[1] # last.id
                  /\ last.behaviors[a.target_id[1]].tag = "Alive"
        /\ Merged =>
              /\ MergeTarget # last.id
              /\ last.behaviors[MergeTarget].tag = "Alive"
              /\ last.bodies[MergeTarget].size >= 1

\* C28 witness: a chaser has merged with an Alive worm while its own tail,
\* nearer than any other, was where its range may reach
C28_Witness ==
    /\ Merged
    /\ LET details == GetMovementDetails(last.bodies, last.id, width, height)
       IN  May(InRange(details.origin, details.chosen_destination,
                        BodyTail(last.bodies[last.id])))

\* the chaser as merge_worms found it: as the turn found it, rolled once if
\* the turn's first movement was a miss
MergeChaser ==
    IF Len(last.attempts) = 2
    THEN Roll(last.bodies[last.id], last.attempts[1].result.head,
              last.attempts[1].result.destination)
    ELSE last.bodies[last.id]

\* the number of segments the merge moved from the target to the chaser
Transferred == last.bodies[MergeTarget].size - bodies[MergeTarget].size

\* a sequence of points, each moved by diff
Translated(s, diff) == [i \in 1..Len(s) |-> PointAdd(s[i], diff)]

\* whether two points have the same grid coordinates: the f32 values are
\* then within the rounding of each other
SamePlace(p, q) == p[1] = q[1] /\ p[2] = q[2]

\* C29 as stated: the first of the chaser's translated segments is exactly
\* the target's former tail.  shift adds (tail - p) to p in f32, and p +
\* (tail - p) is not always tail there: with p.x = cos of 8 arcs, about
\* -4.4e-8, and tail.x = 1.0, tail.x - p.x rounds to 1.0 and p.x + 1.0 to
\* 0.99999994.
C29_LandsOnTail ==
    Merged =>
        LET C == IterSeq(MergeChaser)
            T == IterSeq(last.bodies[MergeTarget])
        IN  Len(C) >= 2 /\ Transferred >= 1 =>
               IterSeq(bodies[last.id])[Transferred + 1] = T[Len(T)]

\* C29: after merge_worms(chaser, target), c and t being the sizes before
\* and k the number of segments moved, the chaser is, head to tail, the
\* target's k tail-most segments in the target's head-to-tail order and
\* then its own former segments 2..c, each moved by (the target's former
\* tail - the chaser's former second segment), the first of them lying on
\* the target's former tail up to the rounding of the two f32 operations;
\* the target is its former t - k head-most segments, unchanged.
C29_MergeSequences ==
    Merged =>
        LET C == IterSeq(MergeChaser)
            T == IterSeq(last.bodies[MergeTarget])
            c == Len(C)
            t == Len(T)
            k == Transferred
            diff == IF c >= 2 THEN PointSub(T[t], C[2]) ELSE Point(0, 0)
        IN  /\ k \in 0..t
            /\ IterSeq(bodies[last.id]) =
                  SubSeq(T, t - k + 1, t) \o Translated(SubSeq(C, 2, c), diff)
            /\ c >= 2 /\ k >= 1 => SamePlace(IterSeq(bodies[last.id])[k + 1], T[t])
            /\ IterSeq(bodies[MergeTarget]) = SubSeq(T, 1, t - k)

\* C29 witness: a chaser of several segments, away from where the target's
\* tail is, has taken some but not all of a target's segments, and its
\* second segment has landed at the tail within rounding, not exactly
C29_Witness ==
    /\ Merged
    /\ MergeChaser.size >= 3
    /\ Transferred >= 2
    /\ bodies[MergeTarget].size >= 2
    /\ ~ SamePlace(IterSeq(MergeChaser)[2], BodyTail(last.bodies[MergeTarget]))
    /\ SamePlace(IterSeq(bodies[last.id])[Transferred + 1], BodyTail(last.bodies[MergeTarget]))
    /\ IterSeq(bodies[last.id])[Transferred + 1] # BodyTail(last.bodies[MergeTarget])

\* C30: roll(p, t) on a body whose head-to-tail sequence S has n >= 1
\* segments makes the sequence p followed by the first n - 1 of S and the
\* target t; grow(p) on a body that is not full makes it p followed by all
\* of S and the target p.  Across the wrap of the ring index too: once at
\* least as many points were put in as the body has segments, the body is
\* the last of them, newest first.
C30_RollAndGrow ==
    LET S == IterSeq(last.body)
        n == Len(S)
        now == IterSeq(bodies[0])
    IN  /\ last.op = "roll" /\ n >= 1 =>
              /\ now = <<last.call.part>> \o SubSeq(S, 1, n - 1)
              /\ bodies[0].target = last.call.target
        /\ last.op = "grow" /\ ~ Full(last.body) =>
              /\ now = <<last.call.part>> \o S
              /\ bodies[0].target = last.call.part
        /\ Len(last.rolled) >= Len(now) => now = SubSeq(last.rolled, 1, Len(now))

\* C30 witness: the ring index has wrapped, the body has several segments,
\* not all alike, and each of them was put in by a roll or a grow
C30_Witness ==
    /\ last.op = "roll"
    /\ bodies[0].start < bodies[0].size - 1
    /\ bodies[0].size >= 2
    /\ Len(last.rolled) >= bodies[0].size
    /\ IterSeq(bodies[0])[1] # IterSeq(bodies[0])[2]
    /\ \E i \in 1..Len(last.rolled) : last.rolled[i] # last.rolled[1]

\* C31: growing into an empty body, whatever its start index, the first m
\* items of a donor's tail-to-head iteration, in that order, gives a body
\* of m segments that is, head to tail, the donor's m tail-most segments in
\* the donor's own head-to-tail order.
C31_FillFromTail ==
    last.op = "fill" =>
        LET D == IterSeq(bodies[0])
            m == last.take
        IN  /\ bodies[1].size = m
            /\ IterSeq(bodies[1]) = SubSeq(D, Len(D) - m + 1, Len(D))

\* C31 witness: some but not all of the segments of a donor that runs over
\* the end of the array were grown into an empty body, and the index of
\* that body wrapped as well
C31_Witness ==
    /\ last.op = "fill"
    /\ last.take >= 2
    /\ last.take < bodies[0].size
    /\ bodies[0].start < bodies[0].size - 1
    /\ bodies[1].start < bodies[1].size - 1
    /\ IterSeq(bodies[1])[1] # IterSeq(bodies[1])[last.take]

\* C32: at the start of every turn and after every execute(), a slot is
\* Removed exactly when its body has no segment: a Removed slot is empty and
\* an Alive, Chasing or Dead one has at least one segment (worms being
\* spawned with at least one).
C32_RemovedIffEmpty ==
    \A i \in DOMAIN behaviors : behaviors[i].tag = "Removed" <=> bodies[i].size = 0

\* C32 witness: a Dead worm with segments was removed in the turn just taken
\* and its body is empty
C32_Witness ==
    /\ last.op = "dead"
    /\ last.bodies[last.id].size >= 1
    /\ behaviors[last.id].tag = "Removed"
    /\ bodies[last.id].size = 0
    /\ \E i \in DOMAIN behaviors : behaviors[i].tag # "Removed"

\* a movement of the Chasing turn just taken accepted a candidate head:
\* collides returned false for it, so its scan visited every body
Scanned ==
    /\ last.op = "chasing"
    /\ \E a \in Attempts : a.valid # <<>>

\* the values of the unsigned subtractions the turn just taken has made:
\* the collision scan of a Chasing worm (sizes do not change between the two
\* movements of a turn), merge_worms and split_worm
Subtractions ==
    (IF Scanned \/ last.op = "panic" THEN ScanSubtractions(last.bodies) ELSE {})
    \cup (IF Merged THEN MergeSubtractions(last.bodies, last.id, MergeTarget) ELSE {})
    \cup (IF last.op = "split"
          THEN SplitSubtractions(Before.size, After.size, params.worm_size) ELSE {})

\* C33 (as claimed): no unsigned subtraction made by execute() has a
\* negative result: not body.size() - 1 in the chasing collision scan, not
\* size - n in shrink, not MAX_SIZE - size in available_space, not the size
\* differences of split_worm and merge_worms.
C33_NoUnderflow == \A d \in Subtractions : d >= 0

\* where C33 fails: a Chasing worm has moved while a slot was empty, and
\* its collision scan has computed 0 - 1 for that slot; the differences of
\* merge_worms in the same turn are all non-negative
C33_EmptyBodyScanned ==
    /\ Scanned
    /\ \E i \in DOMAIN last.bodies :
          /\ last.behaviors[i].tag = "Removed"
          /\ last.bodies[i].size = 0
    /\ -1 \in ScanSubtractions(last.bodies)
    /\ Merged => \A d \in MergeSubtractions(last.bodies, last.id, MergeTarget) : d >= 0

\* C34 (as claimed): whatever the order of the calls of next() and
\* next_back() on one iterator over a body of n segments, the calls from
\* the front walk head to tail and those from the back tail to head without
\* the ends crossing, so that each segment is yielded once; None comes from
\* either end once n items were yielded, and not before.
C34_EachOnce ==
    last.op \in {"next", "next_back"} =>
        LET S == IterSeq(bodies[0])
            n == Len(S)
        IN  /\ Len(last.front) + Len(last.back) <= n
            /\ \A i \in 1..Len(last.front) : last.front[i] = S[i]
            /\ \A j \in 1..Len(last.back) : last.back[j] = S[n - j + 1]
            /\ last.none => Len(last.front) + Len(last.back) = n
            /\ last.none <=> tick > Len(last.front) + Len(last.back)

\* where C34 fails: on a body of two segments next() and then next_back()
\* have both yielded the head; the iterator is exhausted and the tail was
\* never yielded
C34_HeadTwice ==
    /\ bodies[0].size = 2
    /\ last.front = <<BodyHead(bodies[0])>>
    /\ last.back = <<BodyHead(bodies[0])>>
    /\ BodyTail(bodies[0]) # BodyHead(bodies[0])
    /\ last.none

\* the ticker threads that have not left their loop
LiveTickers == {i \in 1..Len(gui.threads) : gui.threads[i] \notin {"done", "panicked"}}

\* C35 (as claimed): however Reset, Step and Continue fall between the
\* steps of the ticker threads, at most one thread spawned by start is in
\* its loop at any time: an earlier thread has seen the interval at 0 and
\* left before a later start sets the interval again.
C35_OneTicker == Cardinality(LiveTickers) <= 1

\* where C35 fails: start has set the interval and spawned a thread while
\* an earlier thread was still in its loop; that thread and the new one are
\* both asleep after a tick of each, the interval not 0
C35_TwoTickers ==
    /\ gui.tick_interval # 0
    /\ \E i \in LiveTickers, j \in LiveTickers :
          /\ i < j
          /\ gui.threads[i] = "sleeping"
          /\ gui.threads[j] = "sleeping"

====
